---------------------------- MODULE Spec2Model ----------------------------
(***************************************************************************)
(* A model of the table pipeline of brplotviz (src/src/brplotviz/table):   *)
(* print_table and print_table_LaTeX with the helpers, styles and rule     *)
(* markers they use.                                                       *)
(*                                                                         *)
(* Representation.  A text (a Python str) is a sequence of one-character   *)
(* strings, so that len, padding and str.split are computed; the fixed     *)
(* keywords a style emits (\toprule, \begin{table}[!htbp], ...) are one    *)
(* token each.  A raw cell is a record [t, s, n]: a str (s), an int (n) or *)
(* a float (n hundredths).  A table entry is a record [rule, cells]: a     *)
(* data row (rule = "Row") or a rule marker (rule = the class name).       *)
(* An optional argument is a record with a field saying whether it is None.*)
(* A raised exception ends the call in pc = "raised" with exc naming it.   *)
(***************************************************************************)
EXTENDS Integers, Sequences, FiniteSets, TLC

\* Bounds of the inputs drawn in the initial states.
MaxRows == 2     \* entries of a table
MaxCols == 2     \* cells of a row
MaxEntries == 3  \* entries of a table where the rule markers are studied
MaxCalls == 3    \* calls the caller makes one after the other

-----------------------------------------------------------------------------
(* Sequences *)

Min(a, b) == IF a < b THEN a ELSE b
Max(a, b) == IF a > b THEN a ELSE b

RECURSIVE MaxOf(_)
MaxOf(ns) == IF ns = <<>> THEN 0 ELSE Max(Head(ns), MaxOf(Tail(ns)))

RECURSIVE Flatten(_)
Flatten(ss) == IF ss = <<>> THEN <<>> ELSE Head(ss) \o Flatten(Tail(ss))

\* The sequence f as an explicit tuple: the same value, computed once
\* instead of at each application.
List(f) == f \o <<>>

Take(s, n) == SubSeq(s, 1, Min(n, Len(s)))

\* list.insert(i, x): x goes before the element at (0-based) index i, or to
\* the end when the list is shorter.
ListInsert(s, i, x) == Take(s, i) \o <<x>> \o SubSeq(s, Min(i, Len(s)) + 1, Len(s))

\* All sequences over S of a length in lo..hi.
SeqsOf(S, lo, hi) == {SubSeq(f, 1, n) : f \in [1..hi -> S], n \in lo..hi}

-----------------------------------------------------------------------------
(* Texts *)

NL == "\n"
T1(c) == <<c>>
Spaces(n) == List([k \in 1..n |-> " "])
Repeat(c, n) == List([k \in 1..n |-> c])

\* sep.join(parts)
RECURSIVE JoinText(_, _)
JoinText(sep, parts) ==
  IF parts = <<>> THEN <<>>
  ELSE IF Len(parts) = 1 THEN Head(parts)
  ELSE Head(parts) \o sep \o JoinText(sep, Tail(parts))

\* text.split(c) for a one-character separator c: always at least one piece.
RECURSIVE SplitText(_, _)
SplitText(text, c) ==
  IF \A k \in 1..Len(text) : text[k] # c THEN <<text>>
  ELSE LET p == CHOOSE k \in 1..Len(text) :
                  text[k] = c /\ \A m \in 1..(k - 1) : text[m] # c
       IN  <<SubSeq(text, 1, p - 1)>> \o SplitText(SubSeq(text, p + 1, Len(text)), c)

HasChar(text, c) == \E k \in 1..Len(text) : text[k] = c

\* str.lower() on the letters the model uses.
LowerChar(c) ==
  CASE c = "A" -> "a" [] c = "C" -> "c" [] c = "D" -> "d" [] c = "E" -> "e"
    [] c = "K" -> "k" [] c = "L" -> "l" [] c = "M" -> "m" [] c = "N" -> "n"
    [] c = "O" -> "o" [] c = "R" -> "r" [] c = "S" -> "s" [] c = "T" -> "t"
    [] c = "U" -> "u" [] c = "V" -> "v" [] c = "W" -> "w" [] c = "X" -> "x"
    [] OTHER -> c
Lower(text) == List([k \in 1..Len(text) |-> LowerChar(text[k])])

Digit(d) == <<"0", "1", "2", "3", "4", "5", "6", "7", "8", "9">>[d + 1]

\* str(n) for an int n >= 0.
RECURSIVE IntStr(_)
IntStr(n) == IF n < 10 THEN T1(Digit(n)) ELSE IntStr(n \div 10) \o T1(Digit(n % 10))

-----------------------------------------------------------------------------
(* Raw cells and their conversion to text *)

StrV(s) == [t |-> "str", s |-> s, n |-> 0]
IntV(n) == [t |-> "int", s |-> <<>>, n |-> n]
FloatV(h) == [t |-> "float", s |-> <<>>, n |-> h]

\* str(entry).  A float of h hundredths prints its fraction without a
\* trailing zero but with at least one digit (1.5, 4.25, 2.0).
PyStr(v) ==
  CASE v.t = "str" -> v.s
    [] v.t = "int" -> IntStr(v.n)
    [] OTHER -> IntStr(v.n \div 100) \o T1(".") \o T1(Digit((v.n % 100) \div 10))
                \o (IF v.n % 10 = 0 THEN <<>> ELSE T1(Digit(v.n % 10)))

\* The number of hundredths of a numeric cell.
Hundredths(v) == IF v.t = "int" THEN 100 * v.n ELSE v.n

\* format(x, ".1f"): to the nearest tenth; a tie (x.x5, exact in binary only
\* for .25 and .75, the only ties among the model's floats) to the even digit.
Tenths(h) ==
  LET q == h \div 10
      r == h % 10
  IN  IF r < 5 THEN q ELSE IF r > 5 THEN q + 1 ELSE IF q % 2 = 0 THEN q ELSE q + 1

\* Whether "{" + template + "}" can be applied to the cell.  The templates
\* of the model: "" (plain), ":.2f", ":.1f" (numbers only), ":d" (ints only),
\* "x" (a field name: KeyError for every cell).
CanFormat(tpl, v) ==
  CASE tpl = "" -> TRUE
    [] tpl \in {":.2f", ":.1f"} -> v.t \in {"int", "float"}
    [] tpl = ":d" -> v.t = "int"
    [] OTHER -> FALSE

\* ("{" + template + "}").format(entry), where CanFormat.
FormatWith(tpl, v) ==
  CASE tpl \in {"", ":d"} -> PyStr(v)
    [] tpl = ":.2f" ->
         LET h == Hundredths(v)
         IN  IntStr(h \div 100) \o T1(".") \o T1(Digit((h % 100) \div 10))
             \o T1(Digit(h % 10))
    [] OTHER ->
         LET d == Tenths(Hundredths(v))
         IN  IntStr(d \div 10) \o T1(".") \o T1(Digit(d % 10))

-----------------------------------------------------------------------------
(* Rule markers: rules.py *)

RuleNames == {"TopRule", "BotRule", "NoRule", "HeadRule", "ExtraRule", "MidRule"}

\* Rule.priority of each subclass: the lower, the more important.
Priority(name) ==
  CASE name = "TopRule" -> 0 [] name = "BotRule" -> 1 [] name = "NoRule" -> 2
    [] name = "HeadRule" -> 3 [] name = "ExtraRule" -> 4 [] OTHER -> 5

RowE(cells) == [rule |-> "Row", cells |-> cells]
RuleE(name) == [rule |-> name, cells |-> <<>>]

\* _rule_check(row): whether the entry is a rule marker.
IsRule(e) == e.rule # "Row"

-----------------------------------------------------------------------------
(* Styles: styles.py *)

StyleNames == {"csv", "tsv", "latex", "markdown", "test"}

\* The attributes the constructor of each style class sets.
StyleOf(name) ==
  CASE name = "csv" ->
         [name |-> name, linestart |-> <<>>, firstsep |-> T1(","), itemsep |-> T1(","),
          lineend |-> <<>>, pad_left |-> <<>>, pad_right |-> <<>>]
    [] name = "tsv" ->
         [name |-> name, linestart |-> <<>>, firstsep |-> T1("\t"), itemsep |-> T1("\t"),
          lineend |-> <<>>, pad_left |-> <<>>, pad_right |-> <<>>]
    [] name = "latex" ->
         [name |-> name, linestart |-> <<>>, firstsep |-> T1("&"), itemsep |-> T1("&"),
          lineend |-> <<"\\", "\\">>, pad_left |-> <<>>, pad_right |-> <<>>]
    [] name = "markdown" ->
         [name |-> name, linestart |-> T1("|"), firstsep |-> T1("|"), itemsep |-> T1("|"),
          lineend |-> T1("|"), pad_left |-> <<>>, pad_right |-> <<>>]
    [] OTHER ->
         [name |-> "test", linestart |-> T1("^"), firstsep |-> <<"|", "|">>,
          itemsep |-> T1("|"), lineend |-> T1("$"), pad_left |-> <<" ", "<">>,
          pad_right |-> <<">", " ">>]

\* Style.row(row), for a row of at least one cell.
StyleRow(st, row) ==
  st.linestart \o st.pad_right \o row[1]
  \o st.pad_left \o st.firstsep \o st.pad_right
  \o JoinText(st.pad_left \o st.itemsep \o st.pad_right, Tail(row))
  \o st.pad_left \o st.lineend

\* What a rule method returns: None, a line, or an exception.
NoLine == [kind |-> "None", text |-> <<>>]
Line(text) == [kind |-> "text", text |-> text]
RuleError(name) == [kind |-> name, text |-> <<>>]

\* An alignment list as a style receives it: None or a list whose entries are
\* "l", "c", "r", "" or "None" (the entry None).
NoAlign == [none |-> TRUE, list |-> <<>>]
AlignList(list) == [none |-> FALSE, list |-> list]

\* markdown.rule for the HeadRule: one cell per pair of
\* zip_longest(widths, align, fillvalue = ""); a width filled in for a
\* surplus alignment is "" and its arithmetic raises TypeError; the row of
\* no cell at all raises IndexError in Style.row.
MarkdownRuleCell(w, a) ==
  CASE a \in {"None", ""} -> Repeat("-", Max(3, w))
    [] a = "l" -> T1(":") \o Repeat("-", Max(3, w - 1))
    [] a = "c" -> T1(":") \o Repeat("-", Max(3, w - 2)) \o T1(":")
    [] OTHER -> Repeat("-", Max(3, w - 1)) \o T1(":")

MarkdownRule(st, widths, align) ==
  LET al == IF align.none THEN List([k \in 1..Len(widths) |-> "None"]) ELSE align.list
      n == Max(Len(widths), Len(al))
      cells == List([k \in 1..Len(widths) |->
                  MarkdownRuleCell(widths[k], IF k <= Len(al) THEN al[k] ELSE "")])
  IN  IF Len(al) > Len(widths) THEN RuleError("TypeError")
      ELSE IF n = 0 THEN RuleError("IndexError")
      ELSE Line(StyleRow(st, cells))

\* Style.rule(widths, align, rule_type) of each style class.
StyleRule(st, widths, align, rule) ==
  CASE st.name \in {"csv", "tsv"} ->
         IF rule = "ExtraRule" THEN Line(<<>>) ELSE NoLine
    [] st.name = "latex" ->
         CASE rule = "TopRule" -> Line(<<"\\toprule">>)
           [] rule = "HeadRule" -> Line(<<"\\midrule">>)
           [] rule = "BotRule" -> Line(<<"\\bottomrule">>)
           [] rule = "ExtraRule" -> Line(<<"\\addlinespace">>)
           [] OTHER -> NoLine
    [] st.name = "markdown" ->
         IF rule = "HeadRule" THEN MarkdownRule(st, widths, align) ELSE NoLine
    [] OTHER -> Line(<<"---", rule, "---">>)

\* The widths as they are found, for every style.
ModifyColWidthsSame(st, col_widths, align) == col_widths

\* Style.modify_col_widths(col_widths, align): the identity, but for markdown
\* the minimum widths 3 (None), 5 (centred) and 4 (any other alignment).
ModifyColWidths(st, col_widths, align) ==
  IF st.name # "markdown" THEN col_widths
  ELSE LET al == IF align.none THEN List([k \in 1..Len(col_widths) |-> "None"]) ELSE align.list
       IN  List([k \in 1..Min(Len(col_widths), Len(al)) |->
              CASE al[k] = "None" -> Max(3, col_widths[k])
                [] al[k] = "c" -> Max(5, col_widths[k])
                [] OTHER -> Max(4, col_widths[k])])

-----------------------------------------------------------------------------
(* The helpers of print_table: table/__init__.py *)

\* _clean_table(table)[0]: the data rows, as lists of cells.
RECURSIVE CleanRows(_)
CleanRows(table) ==
  IF table = <<>> THEN <<>>
  ELSE IF IsRule(Head(table)) THEN CleanRows(Tail(table))
  ELSE <<Head(table).cells>> \o CleanRows(Tail(table))

\* _clean_table(table)[1]: rule_dict, the pairs <<index, marker>> (0-based)
\* in the order of the table, which is the order the dict yields them in.
RECURSIVE RuleDictFrom(_, _)
RuleDictFrom(table, i) ==
  IF table = <<>> THEN <<>>
  ELSE IF IsRule(Head(table)) THEN <<<<i, Head(table)>>>> \o RuleDictFrom(Tail(table), i + 1)
  ELSE RuleDictFrom(Tail(table), i + 1)
\* The rule_dict with its indices counted from 1.
RuleDictFromOne(table) == RuleDictFrom(table, 1)

RuleDict(table) == RuleDictFrom(table, 0)

\* A transposition that ends with the shortest row.
TransposeShortest(rows) ==
  LET width == IF rows = <<>> THEN 0
               ELSE Len(rows[CHOOSE r \in 1..Len(rows) :
                               \A q \in 1..Len(rows) : Len(rows[r]) <= Len(rows[q])])
  IN  List([c \in 1..width |-> List([r \in 1..Len(rows) |-> rows[r][c]])])

\* _transpose(table) for a list of lists: zip_longest(*table, fillvalue = ""),
\* fill being the "" of the cells' representation.
TransposeFill(rows, fill) ==
  LET width == MaxOf(List([r \in 1..Len(rows) |-> Len(rows[r])]))
  IN  List([c \in 1..width |->
         List([r \in 1..Len(rows) |-> IF c <= Len(rows[r]) THEN rows[r][c] ELSE fill])])
\* A transposition that fills up with '-'.
TransposeDashed(rows) == TransposeFill(rows, <<"-">>)

Transpose(rows) == TransposeFill(rows, <<>>)

\* One cell whose failing template leaves the empty text.
FormatCellOrEmpty(format_entry, entry) ==
  IF format_entry.isstr /\ CanFormat(format_entry.tpl, entry)
  THEN FormatWith(format_entry.tpl, entry)
  ELSE <<>>

\* One cell of _apply_format: the template where it applies, str(entry)
\* where the try block raises.  A format entry that is itself a list (an
\* entry of a nested formatter) cannot be concatenated and raises as well.
FormatCell(format_entry, entry) ==
  IF format_entry.isstr /\ CanFormat(format_entry.tpl, entry)
  THEN FormatWith(format_entry.tpl, entry)
  ELSE PyStr(entry)

\* The first n items of iterating the formatter: None counts as "", a str
\* is repeated without end, a list yields its entries.
FormatterItems(formatter, n) ==
  CASE formatter.kind = "None" -> List([k \in 1..n |-> [isstr |-> TRUE, tpl |-> ""]])
    [] formatter.kind = "str" -> List([k \in 1..n |-> [isstr |-> TRUE, tpl |-> formatter.tpl]])
    [] formatter.kind = "list" ->
         List([k \in 1..Min(n, Len(formatter.flat)) |-> [isstr |-> TRUE, tpl |-> formatter.flat[k]]])
    [] OTHER ->
         List([k \in 1..Min(n, Len(formatter.nested)) |-> [isstr |-> FALSE, tpl |-> ""]])

\* One row of _apply_format: zip(formatter, row) ends with the shorter.
FormatRow(row, formatter) ==
  LET items == FormatterItems(formatter, Len(row))
  IN  List([k \in 1..Len(items) |-> FormatCell(items[k], row[k])])

\* _apply_format(table, formatter)
ApplyFormat(table, formatter) ==
  List([r \in 1..Len(table) |->
     IF IsRule(table[r]) THEN table[r] ELSE RowE(FormatRow(table[r].cells, formatter))])

\* A table without templates returned as it was given, list and rows.
ApplyFormatSharesUnformatted(formatter) ==
  IF formatter.kind = "None" THEN {"table", "rows"} ELSE {}

\* Which of the list it is given and of the rows in it _apply_format returns
\* as objects of its result: none, str_table and every str_row being lists
\* it makes (lines 376 and 379); only the rule markers are passed on.
ApplyFormatShares(formatter) == {}

\* The replacement carried out in the first list only.
ReplaceFirstOnly(rows, replacement) ==
  List([r \in 1..Len(rows) |->
     List([c \in 1..Len(rows[r]) |->
        IF r = 1 /\ rows[r][c] \in DOMAIN replacement
        THEN replacement[rows[r][c]] ELSE rows[r][c]])])

\* replace(table, replacement) on lists of texts: an exact match of a key.
Replace(rows, replacement) ==
  List([r \in 1..Len(rows) |->
     List([c \in 1..Len(rows[r]) |->
        IF rows[r][c] \in DOMAIN replacement THEN replacement[rows[r][c]] ELSE rows[r][c]])])

\* The width of a column taken from its first cell only.
FindColWidthFirst(cols) == List([c \in 1..Len(cols) |-> Len(cols[c][1])])

\* _find_col_width(table) for a list of columns.
FindColWidth(cols) ==
  List([c \in 1..Len(cols) |-> MaxOf(List([r \in 1..Len(cols[c]) |-> Len(cols[c][r])]))])

\* A list completed with right alignment for the columns beyond its end.
GetAlignmentsFillRight(cols, align) ==
  CASE align.kind = "None" -> NoAlign
    [] align.kind = "str" -> AlignList(List([c \in 1..Len(cols) |-> align.s]))
    [] OTHER ->
         AlignList(List([c \in 1..Max(Len(cols), Len(align.list)) |->
                      IF c <= Len(align.list) THEN align.list[c] ELSE "r"]))

\* _get_alignments(table, align) for align None, a str or a list: a list is
\* zip_longest(table, align, fillvalue = "l"), as long as the longer of both.
GetAlignments(cols, align) ==
  CASE align.kind = "None" -> NoAlign
    [] align.kind = "str" -> AlignList(List([c \in 1..Len(cols) |-> align.s]))
    [] OTHER ->
         AlignList(List([c \in 1..Max(Len(cols), Len(align.list)) |->
                      IF c <= Len(align.list) THEN align.list[c] ELSE "l"]))

\* A format call that ignores the width.
PadCellUnpadded(code, width, text) == text

\* ("{:" + align + str(width) + "}").format(entry): "<" and no code pad on the
\* right, ">" on the left, "^" on both sides with the odd space on the right.
PadCell(code, width, text) ==
  LET gap == width - Len(text)
  IN  IF gap <= 0 THEN text
      ELSE CASE code = ">" -> Spaces(gap) \o text
             [] code = "^" -> Spaces(gap \div 2) \o text \o Spaces(gap - gap \div 2)
             [] OTHER -> text \o Spaces(gap)

\* align_dict.get(a, "")
AlignCode(a) == CASE a = "l" -> "<" [] a = "c" -> "^" [] a = "r" -> ">" [] OTHER -> ""

\* _align(table, alignments, col_widths): the zip ends with the shortest.
Align(cols, alignments, col_widths) ==
  IF alignments.none THEN cols
  ELSE List([c \in 1..Min(Len(alignments.list), Min(Len(cols), Len(col_widths))) |->
          List([r \in 1..Len(cols[c]) |->
             PadCell(AlignCode(alignments.list[c]), col_widths[c], cols[c][r])])])

\* The loop of _newline_split over the cells from column col on.
RECURSIVE NewlineSplitLoop(_, _, _)
NewlineSplitLoop(row, col, extra_lines) ==
  IF col > Len(row) THEN extra_lines
  ELSE IF ~HasChar(row[col], NL)
       THEN NewlineSplitLoop(row, col + 1,
              [extra_lines EXCEPT ![1] = [@ EXCEPT ![col] = row[col]]])
       ELSE LET cell_lines == SplitText(row[col], NL)
                max_new_lines == Max(Len(extra_lines), Len(cell_lines))
                grown == List([k \in 1..max_new_lines |->
                            IF k <= Len(extra_lines) THEN extra_lines[k]
                            ELSE List([c \in 1..Len(row) |-> <<>>])])
            IN  NewlineSplitLoop(row, col + 1,
                  List([k \in 1..max_new_lines |->
                     IF k <= Len(cell_lines)
                     THEN [grown[k] EXCEPT ![col] = cell_lines[k]]
                     ELSE grown[k]]))

\* The sub-rows with a MidRule, not a NoRule, after each but the last.
NewlineSplitMid(row) ==
  LET extra_lines == NewlineSplitLoop(row, 1, <<List([c \in 1..Len(row) |-> <<>>])>>)
  IN  List([k \in 1..(2 * Len(extra_lines) - 1) |->
         IF k % 2 = 1 THEN RowE(extra_lines[(k + 1) \div 2]) ELSE RuleE("MidRule")])

\* _newline_split(row): the sub-rows with a NoRule after each but the last.
NewlineSplit(row) ==
  LET extra_lines == NewlineSplitLoop(row, 1, <<List([c \in 1..Len(row) |-> <<>>])>>)
  IN  List([k \in 1..(2 * Len(extra_lines) - 1) |->
         IF k % 2 = 1 THEN RowE(extra_lines[(k + 1) \div 2]) ELSE RuleE("NoRule")])

\* The reinsertion loop of print_table: table.insert(i, rule) for each item
\* of rule_dict from item k on.
RECURSIVE InsertRules(_, _, _)
InsertRules(table, rule_dict, k) ==
  IF k > Len(rule_dict) THEN table
  ELSE InsertRules(ListInsert(table, rule_dict[k][1], rule_dict[k][2]), rule_dict, k + 1)

-----------------------------------------------------------------------------
(* The state *)

VARIABLES
  calls,            \* the calls the caller made before this one, and what each gave
  fn,               \* the function the caller calls: "print_table" or "print_table_LaTeX"
  args,             \* the caller's arguments (never assigned by the program)
  caller,           \* what the call wrote to the caller's objects, and the locals bound to them
  env,              \* whether the destination can be opened and written
  pc,               \* the position in the call
  exc,              \* the exception that left the call, "" when none
  pt,               \* the arguments of the running print_table call
  style,            \* print_table: the style get_style returned
  table,            \* print_table: the local table
  clean_table,      \* print_table: the data rows before formatting
  table_lines,      \* print_table: the normalized row sequence
  i,                \* print_table: the index of the normalization loop
  col_widths,       \* print_table: the column widths
  alignments,       \* print_table: the column alignments
  formatted_lines,  \* print_table: the lines composed
  latex_lines,      \* print_table_LaTeX: its formatted_lines
  result,           \* what the call returned to the caller
  stdout,           \* the lines printed
  disk              \* the destination file

vars == <<calls, fn, args, caller, env, pc, exc, pt, style, table, clean_table, table_lines, i,
          col_widths, alignments, formatted_lines, latex_lines, result, stdout, disk>>

\* The locals of print_table.
locals == <<style, table, clean_table, table_lines, i, col_widths, alignments,
            formatted_lines>>

NoneOpt == [some |-> FALSE, v |-> <<>>]
Some(v) == [some |-> TRUE, v |-> v]

NoHeadCol == [kind |-> "None", list |-> <<>>, s |-> <<>>]
HeadColList(list) == [kind |-> "list", list |-> list, s |-> <<>>]
HeadColStr(s) == [kind |-> "str", list |-> <<>>, s |-> s]

AlignNone == [kind |-> "None", s |-> "", list |-> <<>>]
AlignStr(s) == [kind |-> "str", s |-> s, list |-> <<>>]
AlignSeq(list) == [kind |-> "list", s |-> "", list |-> list]
AlignOther == [kind |-> "other", s |-> "", list |-> <<>>]

FormatterNone == [kind |-> "None", tpl |-> "", flat |-> <<>>, nested |-> <<>>]
FormatterStr(tpl) == [kind |-> "str", tpl |-> tpl, flat |-> <<>>, nested |-> <<>>]
FormatterList(flat) == [kind |-> "list", tpl |-> "", flat |-> flat, nested |-> <<>>]
FormatterNested(nested) == [kind |-> "nested", tpl |-> "", flat |-> <<>>, nested |-> nested]

StyleName(name) == [isname |-> TRUE, name |-> name, inst |-> ""]
StyleInstance(cls) == [isname |-> FALSE, name |-> <<>>, inst |-> cls]

\* The default values of the parameters of print_table and print_table_LaTeX
\* (table has none).
DefaultArgs ==
  [table |-> <<>>,
   style |-> StyleName(<<"c", "s", "v">>),
   head_col |-> NoHeadCol,
   head_row |-> NoneOpt,
   top_left |-> StrV(<<>>),
   align |-> AlignStr("l"),
   caption |-> NoneOpt,
   file |-> NoneOpt,
   formatter |-> FormatterNone,
   omit_headrule |-> FALSE,
   replacement |-> NoneOpt,
   show |-> "None",
   transpose_data |-> FALSE,
   return_lines |-> FALSE,
   LaTeX_label |-> NoneOpt,
   LaTeX_format |-> [kind |-> "str", s |-> <<"l">>, list |-> <<>>],
   table_head |-> NoneOpt]

\* The lists and the dict the caller passes are objects of the caller: the
\* parameters table (and the rows in it), head_row and head_col are bound to
\* them when the call starts, and a write to one of these locals, as long as
\* it is in shared, is a write to the caller's object.  Of each object the
\* content a write of the call gave it is kept, None while there was none.
NoWrites ==
  [table |-> NoneOpt, head_row |-> NoneOpt,
   shared |-> {"table", "rows", "head_row", "head_col"}]

\* The caller's table and head_row as they are now.  (Nothing in the code
\* writes to head_col or to the replacement map: lines 146-149 iterate over
\* head_col, and replace only reads the map, line 362.)
CallerTable == IF caller.table.some THEN caller.table.v ELSE args.table
CallerHeadRow == IF caller.head_row.some THEN caller.head_row.v ELSE args.head_row

\* A call of print_table(**a) or print_table_LaTeX(**a) about to start.
InitCall(f, a, e) ==
  /\ calls = <<>>
  /\ fn = f
  /\ args = a
  /\ caller = NoWrites
  /\ env = e
  /\ pc = IF f = "print_table" THEN "start" ELSE "latex"
  /\ exc = ""
  /\ pt = a
  /\ style = StyleOf("csv")
  /\ table = <<>>
  /\ clean_table = <<>>
  /\ table_lines = <<>>
  /\ i = 0
  /\ col_widths = <<>>
  /\ alignments = NoAlign
  /\ formatted_lines = <<>>
  /\ latex_lines = <<>>
  /\ result = NoneOpt
  /\ stdout = <<>>
  /\ disk = e.old

\* The destination as a call finds it: it can be opened (with its directories
\* made) or not, the write of line number fail_at (from 1) raises, 0 for
\* none, and old is the content the file has, None when there is no file.
Env(open, fail_at, old) == [open |-> open, fail_at |-> fail_at, old |-> old]
EnvOk == Env(TRUE, 0, NoneOpt)

\* raise: the call ends with the exception.
Raise(name) ==
  /\ pc' = "raised"
  /\ exc' = name

-----------------------------------------------------------------------------
(* print_table *)

StyleClasses == {<<"c", "s", "v">>, <<"t", "s", "v">>, <<"l", "a", "t", "e", "x">>,
                 <<"m", "a", "r", "k", "d", "o", "w", "n">>, <<"t", "e", "s", "t">>}

\* The class name as the model's styles carry it.
ClassName(text) ==
  CASE text = <<"c", "s", "v">> -> "csv"
    [] text = <<"t", "s", "v">> -> "tsv"
    [] text = <<"l", "a", "t", "e", "x">> -> "latex"
    [] text = <<"m", "a", "r", "k", "d", "o", "w", "n">> -> "markdown"
    [] OTHER -> "test"

\* The name looked up as it is written.
GetStyleExact(arg) ==
  IF ~arg.isname THEN [ok |-> TRUE, style |-> StyleOf(arg.inst)]
  ELSE IF arg.name \in StyleClasses
       THEN [ok |-> TRUE, style |-> StyleOf(ClassName(arg.name))]
       ELSE [ok |-> FALSE, style |-> StyleOf("csv")]

\* get_style(style): an instance is returned as it is; a name is looked up
\* in lower case among the style classes, and any failure of the lookup or
\* of the construction becomes RuntimeError (ok = FALSE).
GetStyle(arg) ==
  IF ~arg.isname THEN [ok |-> TRUE, style |-> StyleOf(arg.inst)]
  ELSE IF Lower(arg.name) \in StyleClasses
       THEN [ok |-> TRUE, style |-> StyleOf(ClassName(Lower(arg.name)))]
       ELSE [ok |-> FALSE, style |-> StyleOf("csv")]

\* The body data of print_table after the optional transposition
\* (lines 133-135): the rule markers are cleaned away, not kept.
TransposedBody(tbl, transpose_data) ==
  IF transpose_data
  THEN LET cols == TransposeFill(CleanRows(tbl), StrV(<<>>))
       IN  List([r \in 1..Len(cols) |-> RowE(cols[r])])
  ELSE tbl

\* Lines 130-139: the style, the transposition, the conversion to str.
FormatTable ==
  /\ pc = "start"
  /\ LET st == GetStyle(pt.style)
         body == TransposedBody(pt.table, pt.transpose_data)
     IN  IF ~st.ok
         THEN /\ Raise("RuntimeError")
              /\ UNCHANGED <<locals, pt, caller>>
         ELSE /\ style' = st.style
              /\ caller' = [caller EXCEPT !.shared =
                              (@ \ {"table", "rows"})
                              \cup (IF pt.transpose_data THEN {}
                                    ELSE @ \cap ApplyFormatShares(pt.formatter))]
              /\ clean_table' = CleanRows(body)
              /\ table' = ApplyFormat(body, pt.formatter)
              /\ pt' = [pt EXCEPT !.top_left = StrV(PyStr(pt.top_left))]
              /\ pc' = "formatted"
              /\ UNCHANGED <<exc, table_lines, i, col_widths, alignments, formatted_lines>>
  /\ UNCHANGED <<calls, fn, args, env, latex_lines, result, stdout, disk>>

EnumerateText == <<"e", "n", "u", "m", "e", "r", "a", "t", "e">>

\* The head column with the numbers 0..N-1 for "enumerate".
HeadColTextsFromZero(head_col, n) ==
  CASE head_col.kind = "str" /\ Lower(head_col.s) = EnumerateText ->
         List([k \in 1..n |-> PyStr(IntV(k - 1))])
    [] head_col.kind = "str" -> List([k \in 1..Len(head_col.s) |-> T1(head_col.s[k])])
    [] OTHER -> FormatRow(head_col.list, FormatterNone)

\* head_col as lines 141-145 leave it, as a list of texts: the numbers
\* 1..N for "enumerate", else the entries (of a str: its characters).
HeadColTexts(head_col, n) ==
  CASE head_col.kind = "str" /\ Lower(head_col.s) = EnumerateText ->
         List([k \in 1..n |-> PyStr(IntV(k))])
    [] head_col.kind = "str" -> List([k \in 1..Len(head_col.s) |-> T1(head_col.s[k])])
    [] OTHER -> FormatRow(head_col.list, FormatterNone)

\* The loop of lines 146-149 from entry r on, the next head cell being
\* number k (from 1): the table, or ok = FALSE when next() finds the
\* iterator exhausted (StopIteration).
RECURSIVE InsertHeadCol(_, _, _, _)
InsertHeadCol(tbl, head_col, r, k) ==
  IF r > Len(tbl) THEN [ok |-> TRUE, table |-> tbl]
  ELSE IF IsRule(tbl[r]) THEN InsertHeadCol(tbl, head_col, r + 1, k)
  ELSE IF k > Len(head_col) THEN [ok |-> FALSE, table |-> tbl]
  ELSE InsertHeadCol([tbl EXCEPT ![r] = RowE(<<head_col[k]>> \o tbl[r].cells)],
                     head_col, r + 1, k + 1)

\* Lines 150-155: the header row put before the table.
InsertHeadRow(tbl, head_row, has_head_col, top_left) ==
  IF ~head_row.some THEN tbl
  ELSE LET texts == FormatRow(head_row.v, FormatterNone)
       IN  <<RowE(IF has_head_col THEN <<top_left>> \o texts ELSE texts)>> \o tbl

\* Lines 156-157: the HeadRule after the first entry.
InsertHeadRule(tbl, omit_headrule) ==
  IF omit_headrule THEN tbl ELSE ListInsert(tbl, 1, RuleE("HeadRule"))

\* A list of texts as the caller sees it in one of its lists: str cells.
AsCells(texts) == List([k \in 1..Len(texts) |-> StrV(texts[k])])

\* The caller's objects after lines 140-157, ok telling whether the loop of
\* lines 147-149 found a head cell for every row.  Each write goes to the
\* caller's object when the local written to is still bound to it: the
\* head cells inserted into the rows (line 149), top_left inserted into
\* head_row (line 154; head_row is the row line 152 got from _apply_format),
\* the header row and the HeadRule inserted into the table (lines 155, 157).
\* Lines 142, 145 and 152 bind head_col and head_row to what list() and
\* _apply_format return.
CallerAfterHeads(c, a, head_texts, ok) ==
  LET sh == c.shared
      has_head_col == a.head_col.kind # "None"
      kept == "rows" \in ApplyFormatShares(FormatterNone)
      with_col == IF has_head_col /\ "rows" \in sh
                  THEN Some(InsertHeadCol(CallerTable, AsCells(head_texts), 1, 1).table)
                  ELSE c.table
      top_left == StrV(PyStr(a.top_left))
      header == RowE((IF has_head_col THEN <<top_left>> ELSE <<>>)
                     \o AsCells(FormatRow(a.head_row.v, FormatterNone)))
      rows == IF with_col.some THEN with_col.v ELSE CallerTable
      with_row == IF a.head_row.some THEN <<header>> \o rows ELSE rows
      rebound == (IF a.head_col.kind = "str" \/ (has_head_col /\ ~kept)
                  THEN {"head_col"} ELSE {})
                 \cup (IF ok /\ a.head_row.some /\ ~kept THEN {"head_row"} ELSE {})
  IN  IF ~ok THEN [c EXCEPT !.table = with_col, !.shared = sh \ rebound]
      ELSE [c EXCEPT
              !.table = IF "table" \in sh /\ (a.head_row.some \/ ~a.omit_headrule)
                        THEN Some(InsertHeadRule(with_row, a.omit_headrule))
                        ELSE with_col,
              !.head_row = IF a.head_row.some /\ has_head_col /\ "head_row" \in sh /\ kept
                           THEN Some(Some(<<top_left>> \o CallerHeadRow.v))
                           ELSE c.head_row,
              !.shared = sh \ rebound]

\* Lines 140-157: the head column, the header row, the HeadRule.
AddHeads ==
  /\ pc = "formatted"
  /\ LET has_head_col == pt.head_col.kind # "None"
         head_texts == HeadColTexts(pt.head_col, Len(clean_table))
         with_col == IF has_head_col
                     THEN InsertHeadCol(table, head_texts, 1, 1)
                     ELSE [ok |-> TRUE, table |-> table]
     IN  /\ caller' = CallerAfterHeads(caller, pt, head_texts, with_col.ok)
         /\ IF ~with_col.ok
            THEN /\ Raise("StopIteration")
                 /\ UNCHANGED <<table, table_lines, i>>
            ELSE /\ table' = InsertHeadRule(
                               InsertHeadRow(with_col.table, pt.head_row, has_head_col,
                                             PyStr(pt.top_left)),
                               pt.omit_headrule)
                 /\ table_lines' = <<>>
                 /\ i' = 0
                 /\ pc' = "normalize"
                 /\ UNCHANGED exc
  /\ UNCHANGED <<calls, fn, args, env, pt, style, clean_table, col_widths, alignments,
                 formatted_lines, latex_lines, result, stdout, disk>>

\* Of two markers that follow each other, the later one.
KeptRuleLater(rule, last) == rule

\* The marker kept of two that follow each other (line 167): the one with
\* the lower priority value, the earlier one when they are equal.
KeptRule(rule, last) == IF Priority(rule) < Priority(last) THEN rule ELSE last

\* One pass of the loop of lines 160-172 over entry row at index idx.
NormalizeStep(lines, row, idx) ==
  IF IsRule(row)
  THEN IF idx > 0 /\ IsRule(lines[Len(lines)])
       THEN Take(lines, Len(lines) - 1)
            \o <<RuleE(KeptRule(row.rule, lines[Len(lines)].rule))>>
       ELSE lines \o <<RuleE(row.rule)>>
  ELSE lines \o NewlineSplit(row.cells) \o <<RuleE("MidRule")>>

NormalizeRow ==
  /\ pc = "normalize"
  /\ i < Len(table)
  /\ table_lines' = NormalizeStep(table_lines, table[i + 1], i)
  /\ i' = i + 1
  /\ UNCHANGED <<calls, fn, args, caller, env, pc, exc, pt, style, table, clean_table, col_widths,
                 alignments, formatted_lines, latex_lines, result, stdout, disk>>

\* Line 173: table_lines.pop(), IndexError on the empty list.
NormalizePop ==
  /\ pc = "normalize"
  /\ i = Len(table)
  /\ IF table_lines = <<>>
     THEN /\ Raise("IndexError")
          /\ UNCHANGED table_lines
     ELSE /\ table_lines' = Take(table_lines, Len(table_lines) - 1)
          /\ pc' = "normalized"
          /\ UNCHANGED exc
  /\ UNCHANGED <<calls, fn, args, caller, env, pt, style, table, clean_table, i, col_widths,
                 alignments, formatted_lines, latex_lines, result, stdout, disk>>

\* The columns of lines 175-179: rules removed, transposed, replaced.
LayoutColumns(lines, replacement) ==
  LET cols == Transpose(CleanRows(lines))
  IN  IF replacement.some THEN Replace(cols, replacement.v) ELSE cols

\* Lines 183-188: the columns aligned, transposed back, the rules inserted.
LaidOut(lines, cols, al, widths) ==
  LET rows == Transpose(Align(cols, al, widths))
  IN  InsertRules(List([r \in 1..Len(rows) |-> RowE(rows[r])]), RuleDict(lines), 1)

\* Lines 174-188: the column-wise layout.  Line 175 binds table to the list
\* _clean_table makes of copies of the rows, and lines 177-188 write to the
\* lists _transpose and _align make.
Layout ==
  /\ pc = "normalized"
  /\ caller' = [caller EXCEPT !.shared = @ \ {"table", "rows"}]
  /\ LET cols == LayoutColumns(table_lines, pt.replacement)
     IN  IF pt.align.kind = "other"
         THEN /\ Raise("ValueError")
              /\ UNCHANGED <<table, col_widths, alignments>>
         ELSE LET al == GetAlignments(cols, pt.align)
                  widths == ModifyColWidths(style, FindColWidth(cols), al)
              IN  /\ alignments' = al
                  /\ col_widths' = widths
                  /\ table' = LaidOut(table_lines, cols, al, widths)
                  /\ pc' = "laid_out"
                  /\ UNCHANGED exc
  /\ UNCHANGED <<calls, fn, args, env, pt, style, clean_table, table_lines, i,
                 formatted_lines, latex_lines, result, stdout, disk>>

\* What composing lines gives: the lines, and the exception that ended it.
Composed(lines) == [lines |-> lines, exc |-> ""]
Failed(name) == [lines |-> <<>>, exc |-> name]

\* A rule rendered by the style and appended when it is not None
\* (lines 193-195, 200-202, 203-205).
AppendRule(acc, st, widths, al, rule) ==
  IF acc.exc # "" THEN acc
  ELSE LET r == StyleRule(st, widths, al, rule)
       IN  CASE r.kind = "None" -> acc
             [] r.kind = "text" -> Composed(acc.lines \o <<r.text>>)
             [] OTHER -> Failed(r.kind)

\* The loop of lines 196-202 from entry r on.
RECURSIVE ComposeRows(_, _, _, _, _, _)
ComposeRows(acc, tbl, r, st, widths, al) ==
  IF acc.exc # "" \/ r > Len(tbl) THEN acc
  ELSE IF IsRule(tbl[r])
       THEN ComposeRows(AppendRule(acc, st, widths, al, tbl[r].rule), tbl, r + 1,
                        st, widths, al)
       ELSE IF tbl[r].cells = <<>>
            THEN Failed("IndexError")
            ELSE ComposeRows(Composed(acc.lines \o <<StyleRow(st, tbl[r].cells)>>),
                             tbl, r + 1, st, widths, al)

\* The lines composed after those the previous call left in formatted_lines.
ComposeLinesAppending(tbl, st, widths, al, caption) ==
  LET start == Composed(formatted_lines \o (IF caption.some THEN <<caption.v>> ELSE <<>>))
      top == AppendRule(start, st, widths, al, "TopRule")
      body == ComposeRows(top, tbl, 1, st, widths, al)
  IN  AppendRule(body, st, widths, al, "BotRule")

\* The lines composed with the caption after the top rule.
ComposeLinesTopFirst(tbl, st, widths, al, caption) ==
  LET top == AppendRule(Composed(<<>>), st, widths, al, "TopRule")
      start == IF top.exc = "" /\ caption.some
               THEN Composed(top.lines \o <<caption.v>>) ELSE top
      body == ComposeRows(start, tbl, 1, st, widths, al)
  IN  AppendRule(body, st, widths, al, "BotRule")

\* Lines 189-205: caption, top rule, rows and rules, bottom rule.
ComposeLines(tbl, st, widths, al, caption) ==
  LET start == Composed(IF caption.some THEN <<caption.v>> ELSE <<>>)
      top == AppendRule(start, st, widths, al, "TopRule")
      body == ComposeRows(top, tbl, 1, st, widths, al)
  IN  AppendRule(body, st, widths, al, "BotRule")

Render ==
  /\ pc = "laid_out"
  /\ LET c == ComposeLines(table, style, col_widths, alignments, pt.caption)
     IN  IF c.exc # ""
         THEN /\ Raise(c.exc)
              /\ UNCHANGED formatted_lines
         ELSE /\ formatted_lines' = c.lines
              /\ pc' = "rendered"
              /\ UNCHANGED exc
  /\ UNCHANGED <<calls, fn, args, caller, env, pt, style, table, clean_table, table_lines, i,
                 col_widths, alignments, latex_lines, result, stdout, disk>>

\* The lines printed whenever there is no file, whatever show says.
ShownUnlessFile(file, show) == ~file.some

\* Line 541: whether _output_table prints the lines.
Shown(file, show) == IF show = "None" THEN ~file.some ELSE show = "True"

\* Lines 542-551: the file after the try block.  open(file, "w") empties it;
\* the lines before the one whose write raises are in it.
Written(lines, e, old) ==
  IF ~e.open THEN old
  ELSE IF e.fail_at \in 1..Len(lines) THEN Some(Take(lines, e.fail_at - 1))
  ELSE Some(lines)

WriteFails(lines, e) == ~e.open \/ e.fail_at \in 1..Len(lines)

\* _output_table(formatted_lines, file, show): what is printed.
Printed(lines, file, show, e) ==
  (IF file.some /\ WriteFails(lines, e)
   THEN <<<<"Failed to save table to file ">> \o file.v>> ELSE <<>>)
  \o (IF Shown(file, show) THEN lines ELSE <<>>)

\* Lines 206-209: the output and the return of print_table.
Output ==
  /\ pc = "rendered"
  /\ stdout' = stdout \o Printed(formatted_lines, pt.file, pt.show, env)
  /\ disk' = IF pt.file.some THEN Written(formatted_lines, env, disk) ELSE disk
  /\ IF fn = "print_table"
     THEN /\ result' = IF pt.return_lines THEN Some(formatted_lines) ELSE NoneOpt
          /\ pc' = "done"
     ELSE /\ result' = result
          /\ pc' = "returned"
  /\ UNCHANGED <<calls, fn, args, caller, env, exc, pt, locals, latex_lines>>

PrintTableNext ==
  \/ FormatTable
  \/ AddHeads
  \/ NormalizeRow
  \/ NormalizePop
  \/ Layout
  \/ Render
  \/ Output

-----------------------------------------------------------------------------
(* print_table_LaTeX *)

NoneText == <<"N", "o", "n", "e">>

\* "{}".format(x) of an optional text: "None" for None.
OptStr(opt) == IF opt.some THEN opt.v ELSE NoneText

\* The head cell macros, spelled out because they count for the width of
\* their column.
Thf(letter, text) == <<"\\", "t", "h", "f", letter, "{">> \o text \o <<"}">>

\* Lines 300-305: the header row wrapped in \thfm, its first cell in \thfl
\* when there is no head column, then its last cell in \thfr.
LaTeXHeadRow(head_row, has_head_col) ==
  IF ~head_row.some \/ head_row.v = <<>> THEN head_row
  ELSE LET n == Len(head_row.v)
           mid == List([k \in 1..n |->
                     IF k = 1 /\ ~has_head_col
                     THEN StrV(Thf("l", PyStr(head_row.v[k])))
                     ELSE StrV(Thf("m", PyStr(head_row.v[k])))])
       IN  Some([mid EXCEPT ![n] = StrV(Thf("r", PyStr(head_row.v[n])))])

\* "*{" + n + "}{" + format + "}": n columns of one format.
ColSpec(n, fmt) == <<"*{">> \o IntStr(n) \o <<"}{">> \o fmt \o <<"}">>

\* One specification line per data column, for a str format as well.
LaTeXColumnsOneEach(fmt, ncols) ==
  IF fmt.kind = "str"
  THEN List([k \in 1..ncols |-> ColSpec(1, fmt.s)])
  ELSE List([k \in 1..Len(fmt.list) |-> ColSpec(1, fmt.list[k])])

\* Lines 313-319: the column specification of the data columns.
LaTeXColumns(fmt, ncols) ==
  IF fmt.kind = "str"
  THEN <<ColSpec(ncols, fmt.s)>>
  ELSE List([k \in 1..Len(fmt.list) |-> ColSpec(1, fmt.list[k])])

\* The lines before the table content with the label before the caption.
LaTeXPreambleLinesSwapped(a, ncols) ==
  <<<<"\\begin{table}[!htbp]">>,
    <<"\\centering">>,
    <<"\\label{tab:">> \o OptStr(IF a.LaTeX_label.some THEN a.LaTeX_label ELSE a.file)
       \o <<"}">>,
    <<"\\caption{">> \o OptStr(a.caption) \o <<"}">>,
    <<"\\begin{tabular}{@{}">>>>
  \o (IF a.head_col.kind # "None" THEN <<ColSpec(1, <<"l">>)>> ELSE <<>>)
  \o LaTeXColumns(a.LaTeX_format, ncols)
  \o <<<<"@{}}">>>>
  \o (IF a.table_head.some THEN <<a.table_head.v>> ELSE <<>>)

\* Lines 307-323: the lines before the table content.
LaTeXPreambleLines(a, ncols) ==
  <<<<"\\begin{table}[!htbp]">>,
    <<"\\centering">>,
    <<"\\caption{">> \o OptStr(a.caption) \o <<"}">>,
    <<"\\label{tab:">> \o OptStr(IF a.LaTeX_label.some THEN a.LaTeX_label ELSE a.file)
       \o <<"}">>,
    <<"\\begin{tabular}{@{}">>>>
  \o (IF a.head_col.kind # "None" THEN <<ColSpec(1, <<"l">>)>> ELSE <<>>)
  \o LaTeXColumns(a.LaTeX_format, ncols)
  \o <<<<"@{}}">>>>
  \o (IF a.table_head.some THEN <<a.table_head.v>> ELSE <<>>)

\* Lines 297-340: the preparation, the preamble and the call of print_table.
\* len(table[0]) raises IndexError for an empty table and TypeError for a
\* rule marker.
LaTeXPreamble ==
  /\ pc = "latex"
  /\ caller' = [caller EXCEPT !.shared =
                  IF args.head_row.some /\ args.head_row.v # <<>>
                  THEN @ \ {"head_row"} ELSE @]
  /\ IF args.LaTeX_format.kind = "str" /\ args.table = <<>>
     THEN /\ Raise("IndexError")
          /\ UNCHANGED <<pt, latex_lines>>
     ELSE IF args.LaTeX_format.kind = "str" /\ IsRule(args.table[1])
     THEN /\ Raise("TypeError")
          /\ UNCHANGED <<pt, latex_lines>>
     ELSE IF args.LaTeX_format.kind \notin {"str", "list"}
     THEN /\ Raise("ValueError")
          /\ UNCHANGED <<pt, latex_lines>>
     ELSE /\ latex_lines' =
               LaTeXPreambleLines(args,
                 IF args.LaTeX_format.kind = "str" THEN Len(args.table[1].cells) ELSE 0)
          /\ pt' = [args EXCEPT
                      !.style = StyleName(<<"l", "a", "t", "e", "x">>),
                      !.head_row = LaTeXHeadRow(args.head_row, args.head_col.kind # "None"),
                      !.top_left = StrV(Thf("l", PyStr(args.top_left))),
                      !.caption = NoneOpt,
                      !.file = NoneOpt,
                      !.show = "False",
                      !.return_lines = TRUE]
          /\ pc' = "start"
          /\ UNCHANGED exc
  /\ UNCHANGED <<calls, fn, args, env, locals, result, stdout, disk>>

\* Lines 341-348: the content, the postamble, the output and the return.
LaTeXFinish ==
  /\ pc = "returned"
  /\ LET lines == latex_lines \o formatted_lines
                  \o <<<<"\\end{tabular}">>, <<"\\end{table}">>>>
     IN  /\ latex_lines' = lines
         /\ stdout' = stdout \o Printed(lines, args.file, args.show, env)
         /\ disk' = IF args.file.some THEN Written(lines, env, disk) ELSE disk
         /\ result' = IF args.return_lines THEN Some(lines) ELSE NoneOpt
  /\ pc' = "done"
  /\ UNCHANGED <<calls, fn, args, caller, env, exc, pt, locals>>

Next ==
  \/ PrintTableNext
  \/ LaTeXPreamble
  \/ LaTeXFinish

-----------------------------------------------------------------------------
(* The calls checked.  A row of n cells is a window of a pool of cells that  *)
(* starts at offset p, so that rows of every length up to the bound and of   *)
(* different content occur; a table is any sequence of such rows and of      *)
(* rule markers up to the bound.                                             *)

Row(pool, p, n) == List([k \in 1..n |-> pool[((p + k - 1) % Len(pool)) + 1]])
RowsOf(pool, starts) == {Row(pool, p, n) : p \in starts, n \in 1..MaxCols}
TablesOf(entries, max) == {List(t) : t \in SeqsOf(entries, 0, max)}
RowEntries(rows) == {RowE(r) : r \in rows}
RuleEntries(names) == {RuleE(n) : n \in names}


\* Cells without comma or line break: 'a', 1, 'b', 2, 'cd'.
PlainPool == <<StrV(<<"a">>), IntV(1), StrV(<<"b">>), IntV(2), StrV(<<"c", "d">>)>>
\* Cells with line breaks: 'a', 'b\ncd', 12, '\n'.
MultiPool == <<StrV(<<"a">>), StrV(<<"b", NL, "c", "d">>), IntV(12), StrV(<<NL>>)>>
\* Numbers and texts: 1.5, 'a\nb', 3, 4.25.
NumPool == <<FloatV(150), StrV(<<"a", NL, "b">>), IntV(3), FloatV(425)>>
\* Header cells: 'Name', 'Val', 'X'.
HeadPool == <<StrV(<<"N", "a", "m", "e">>), StrV(<<"V", "a", "l">>), StrV(<<"X">>)>>

\* The arguments that only make the call return its lines without printing.
Quiet(a) == [a EXCEPT !.return_lines = TRUE, !.show = "False"]

\* print_table(table, head_row = ..., style = "csv", return_lines = True)
CsvCalls ==
  {Quiet([DefaultArgs EXCEPT !.table = t, !.head_row = Some(h)]) :
     t \in TablesOf(RowEntries(RowsOf(PlainPool, {0, 2, 4})), MaxRows),
     h \in RowsOf(HeadPool, {0})}

InitCsv == \E a \in CsvCalls : InitCall("print_table", a, EnvOk)
SpecCsv == InitCsv /\ [][PrintTableNext]_vars

StyleArgs == {StyleName(n) : n \in StyleClasses}

\* The align arguments: None, a str, a list (shorter than, as long as and
\* longer than the columns, with None among its entries).
AlignArgs ==
  {AlignNone, AlignStr("l"), AlignStr("c"), AlignStr("r"), AlignStr(""),
   AlignSeq(<<>>), AlignSeq(<<"c">>), AlignSeq(<<"r", "None">>),
   AlignSeq(<<"c", "r", "l", "">>)}

\* print_table(table, style = ..., align = ..., head_row = ...) over tables
\* with multi-line cells and ExtraRule markers.
LayoutCalls ==
  {Quiet([DefaultArgs EXCEPT !.table = t, !.style = st, !.align = al, !.head_row = h]) :
     t \in TablesOf(RowEntries(RowsOf(MultiPool, {0, 1})) \cup RuleEntries({"ExtraRule"}),
                    MaxRows),
     st \in StyleArgs,
     al \in AlignArgs,
     h \in {NoneOpt, Some(Row(HeadPool, 0, 1))}}

InitLayout == \E a \in LayoutCalls : InitCall("print_table", a, EnvOk)
SpecLayout == InitLayout /\ [][PrintTableNext]_vars

\* The two data rows of the tables in which the rule markers are studied.
RuleRows == {<<StrV(<<"a">>)>>, <<StrV(<<"b", NL, "c", "d">>), IntV(12)>>}

\* print_table(table, style = ..., head_row = ..., omit_headrule = ...) over
\* tables with every kind of rule marker.
RuleCalls ==
  {Quiet([DefaultArgs EXCEPT !.table = t, !.style = st, !.head_row = h,
                             !.omit_headrule = o]) :
     t \in TablesOf(RowEntries(RuleRows) \cup RuleEntries(RuleNames), MaxEntries),
     st \in StyleArgs,
     h \in {NoneOpt, Some(<<StrV(<<"H">>)>>)},
     o \in BOOLEAN}

InitRules == \E a \in RuleCalls : InitCall("print_table", a, EnvOk)
SpecRules == InitRules /\ [][PrintTableNext]_vars

Templates == <<":.2f", ":d", "", ":.1f">>

\* A nested formatter of the shape of the table: one template per cell (an
\* empty list for a rule marker).
NestedFor(t) ==
  List([r \in 1..Len(t) |->
          List([c \in 1..Len(t[r].cells) |-> Templates[((r + c) % Len(Templates)) + 1]])])

\* The formatter arguments: None, a str, a flat list, and ("nested") the
\* nested list of the shape of the table.
FormatterArgs ==
  {FormatterNone, FormatterStr(":.2f"), FormatterStr(":d"), FormatterStr("x"),
   FormatterList(<<":.1f", "">>), FormatterNested(<<>>)}
FormatterOn(f, t) == IF f.kind = "nested" THEN FormatterNested(NestedFor(t)) ELSE f

HeadColArgs ==
  {NoHeadCol, HeadColStr(EnumerateText),
   HeadColStr(<<"E", "n", "u", "m", "e", "r", "a", "t", "e">>),
   HeadColStr(<<"E", "N", "U", "M", "E", "R", "A", "T", "E">>)}

\* print_table(table, style = "test", formatter = ..., head_col = ...,
\* head_row = ..., top_left = "TL", transpose_data = ...)
FormatCalls ==
  {Quiet([DefaultArgs EXCEPT !.table = t, !.style = StyleName(<<"t", "e", "s", "t">>),
                             !.formatter = FormatterOn(f, t), !.head_col = hc,
                             !.head_row = h, !.top_left = StrV(<<"T", "L">>),
                             !.transpose_data = tr]) :
     t \in TablesOf(RowEntries(RowsOf(NumPool, {0, 2})) \cup RuleEntries({"ExtraRule"}),
                    MaxRows),
     f \in FormatterArgs,
     hc \in HeadColArgs,
     h \in {NoneOpt, Some(Row(HeadPool, 0, MaxCols))},
     tr \in BOOLEAN}

InitFormat == \E a \in FormatCalls : InitCall("print_table", a, EnvOk)
SpecFormat == InitFormat /\ [][PrintTableNext]_vars

\* The align arguments given per column: a str, and lists shorter than, as
\* long as and longer than the columns.
ColumnAlignArgs ==
  {AlignStr("c"), AlignStr("r"), AlignSeq(<<>>), AlignSeq(<<"r">>),
   AlignSeq(<<"r", "c">>), AlignSeq(<<"c", "r", "l", "r">>)}

\* print_table(table, style = ..., align = ..., head_col = ..., head_row = ...,
\* top_left = "TL") over tables of one-line cells, with or without a head
\* column (a list, or "enumerate").
AlignCalls ==
  {Quiet([DefaultArgs EXCEPT !.table = t, !.style = st, !.align = al, !.head_col = hc,
                             !.head_row = h, !.top_left = StrV(<<"T", "L">>)]) :
     t \in TablesOf(RowEntries(RowsOf(PlainPool, {0, 3})) \cup RuleEntries({"ExtraRule"}),
                    MaxRows),
     st \in {StyleName(<<"c", "s", "v">>), StyleName(<<"m", "a", "r", "k", "d", "o", "w", "n">>)},
     al \in ColumnAlignArgs,
     hc \in {NoHeadCol, HeadColStr(EnumerateText), HeadColList(Row(HeadPool, 0, MaxRows))},
     h \in {NoneOpt, Some(Row(HeadPool, 1, MaxCols))}}

InitAlign == \E a \in AlignCalls : InitCall("print_table", a, EnvOk)
SpecAlign == InitAlign /\ [][PrintTableNext]_vars

\* Cells and header cells of the LaTeX tables: 1, 2, 'a' and 'X', 'Y', 'Z'.
LaTeXPool == <<IntV(1), IntV(2), StrV(<<"a">>)>>
LaTeXHeadPool == <<StrV(<<"X">>), StrV(<<"Y">>), StrV(<<"Z">>)>>

LaTeXTables ==
  TablesOf(RowEntries(RowsOf(LaTeXPool, {0, 2})) \cup RuleEntries({"ExtraRule"}), MaxRows)

\* print_table_LaTeX(table, head_row = ..., head_col = ..., caption = ...,
\* LaTeX_label = ..., LaTeX_format = ..., table_head = ..., return_lines = True)
LaTeXCalls ==
  {[DefaultArgs EXCEPT !.table = t, !.head_row = h, !.head_col = hc,
                       !.caption = cl[1], !.LaTeX_label = cl[2],
                       !.LaTeX_format = fmt, !.table_head = th,
                       !.return_lines = TRUE, !.show = "False"] :
     t \in LaTeXTables,
     h \in {NoneOpt} \cup {Some(r) : r \in RowsOf(LaTeXHeadPool, {0})},
     hc \in {NoHeadCol, HeadColStr(EnumerateText)},
     cl \in {<<NoneOpt, NoneOpt>>, <<Some(<<"T">>), Some(<<"t", "1">>)>>},
     fmt \in {[kind |-> "str", s |-> <<"l">>, list |-> <<>>],
              [kind |-> "list", s |-> <<>>, list |-> <<<<"l">>, <<"r">>>>]},
     th \in {NoneOpt, Some(<<"%", "h", "e", "a", "d">>)}}

\* The style arguments: names of style classes in several letter cases,
\* names of no style class ('cvs', '', 'Style'), and Style instances.
ConfigStyles ==
  {StyleName(<<"C", "S", "V">>), StyleName(<<"L", "a", "T", "e", "X">>),
   StyleName(<<"M", "a", "r", "k", "D", "o", "w", "n">>), StyleName(<<"t", "s", "v">>),
   StyleName(<<"c", "v", "s">>), StyleName(<<>>), StyleName(<<"S", "t", "y", "l", "e">>),
   StyleInstance("test"), StyleInstance("csv")}

\* The align arguments of every type: a str, None, a list or tuple, and a
\* value of another type.
ConfigAligns == {AlignStr("l"), AlignNone, AlignSeq(<<"c">>), AlignOther}

\* The LaTeX_format arguments: a str, a list or tuple, and a value of
\* another type.
ConfigFormats ==
  {[kind |-> "str", s |-> <<"l">>, list |-> <<>>],
   [kind |-> "list", s |-> <<>>, list |-> <<<<"l">>, <<"r">>>>],
   [kind |-> "other", s |-> <<>>, list |-> <<>>]}

\* The destinations: no file, or the file 'f'; and what 'f' holds before
\* the call: nothing (no file), or one line.
FileArgs == {NoneOpt, Some(<<"f">>)}
ShowArgs == {"None", "True", "False"}
OldFiles == {NoneOpt, Some(<<<<"o", "l", "d">>>>)}

ConfigTables == TablesOf(RowEntries(RowsOf(LaTeXPool, {0})), MaxRows)

\* print_table(table, style = ..., align = ..., file = ..., show = ...,
\* return_lines = True)
ConfigPrintCalls ==
  {[DefaultArgs EXCEPT !.table = t, !.style = st, !.align = al, !.file = f, !.show = sh,
                       !.return_lines = TRUE] :
     t \in ConfigTables, st \in ConfigStyles, al \in ConfigAligns,
     f \in FileArgs, sh \in ShowArgs}

\* print_table_LaTeX(table, align = ..., LaTeX_format = ..., file = ...,
\* show = ..., return_lines = True)
ConfigLaTeXCalls ==
  {[DefaultArgs EXCEPT !.table = t, !.align = al, !.LaTeX_format = fmt, !.file = f,
                       !.show = sh, !.return_lines = TRUE] :
     t \in ConfigTables, al \in ConfigAligns, fmt \in ConfigFormats,
     f \in FileArgs, sh \in ShowArgs}

InitConfig ==
  \/ \E a \in ConfigPrintCalls, old \in OldFiles :
       InitCall("print_table", a, Env(TRUE, 0, old))
  \/ \E a \in ConfigLaTeXCalls, old \in OldFiles :
       InitCall("print_table_LaTeX", a, Env(TRUE, 0, old))
SpecConfig == InitConfig /\ [][Next]_vars

\* The destinations as a call finds them: the file cannot be opened, or it
\* can and no write fails, or the write of one of the first lines fails.
OutputEnvs ==
  {Env(FALSE, 0, old) : old \in OldFiles}
  \cup {Env(TRUE, k, old) : k \in 0..MaxRows, old \in OldFiles}

\* print_table(table, file = ..., show = ..., return_lines = ...) and
\* print_table_LaTeX(table, file = ..., show = ..., return_lines = ...)
OutputCalls ==
  {[DefaultArgs EXCEPT !.table = t, !.file = f, !.show = sh, !.return_lines = rl] :
     t \in ConfigTables \ {<<>>}, f \in FileArgs, sh \in ShowArgs, rl \in BOOLEAN}

InitOutput ==
  \E f \in {"print_table", "print_table_LaTeX"}, a \in OutputCalls, e \in OutputEnvs :
    InitCall(f, a, e)
SpecOutput == InitOutput /\ [][Next]_vars

\* The tables of the calls made one after the other: [[1, 2]] and
\* [['a'], ExtraRule, [1, 2]].
SessionTables ==
  {<<RowE(Row(LaTeXPool, 0, 2))>>,
   <<RowE(Row(LaTeXPool, 2, 1)), RuleE("ExtraRule"), RowE(Row(LaTeXPool, 0, 2))>>}

\* The calls made one after the other: print_table with one Style instance
\* or the name of a style, printing or writing to the file 'f';
\* print_table_LaTeX; and a call that raises (an align of a wrong type).
SessionCalls ==
  {<<"print_table", [DefaultArgs EXCEPT !.table = t, !.style = st, !.file = f,
                                        !.return_lines = TRUE]>> :
     t \in SessionTables, st \in {StyleInstance("markdown"), StyleName(<<"c", "s", "v">>)},
     f \in FileArgs}
  \cup {<<"print_table_LaTeX", [DefaultArgs EXCEPT !.table = t, !.return_lines = TRUE]>> :
          t \in SessionTables}
  \cup {<<"print_table", [DefaultArgs EXCEPT !.table = <<RowE(Row(LaTeXPool, 0, 2))>>,
                                             !.align = AlignOther]>>}

\* The caller, the last call having returned or raised, makes the next one.
\* The destination and what was printed stay; the locals keep what the last
\* call left in them (a new frame has no values: every local is assigned
\* before it is read).
NextCall ==
  /\ pc \in {"done", "raised"}
  /\ Len(calls) < MaxCalls - 1
  /\ \E c \in SessionCalls :
       /\ fn' = c[1]
       /\ args' = c[2]
       /\ caller' = NoWrites
       /\ pt' = c[2]
       /\ pc' = IF c[1] = "print_table" THEN "start" ELSE "latex"
  /\ calls' = Append(calls, [fn |-> fn, args |-> args, result |-> result, exc |-> exc])
  /\ exc' = ""
  /\ result' = NoneOpt
  /\ UNCHANGED <<env, locals, latex_lines, stdout, disk>>

SessionNext ==
  \/ Next
  \/ NextCall

InitSession == \E c \in SessionCalls : InitCall(c[1], c[2], EnvOk)
SpecSession == InitSession /\ [][SessionNext]_vars

\* Cells to replace: 'a', 'b\na', 0, ''.
ReplacePool == <<StrV(<<"a">>), StrV(<<"b", NL, "a">>), IntV(0), StrV(<<>>)>>

\* The replacement maps: {'a': '---'}, {'0': 'nothing', '': '-'},
\* {'b\na': 'X'} and {'b': ''}.
ReplacementArgs ==
  {NoneOpt,
   Some(<<"a">> :> <<"-", "-", "-">>),
   Some(<<"0">> :> <<"n", "o", "t", "h", "i", "n", "g">> @@ <<>> :> <<"-">>),
   Some(<<"b", NL, "a">> :> <<"X">>),
   Some(<<"b">> :> <<>>)}

\* print_table(table, replacement = ..., head_row = ..., style = ..., align = ...)
ReplaceCalls ==
  {Quiet([DefaultArgs EXCEPT !.table = t, !.replacement = rp, !.head_row = h,
                             !.style = st, !.align = al]) :
     t \in TablesOf(RowEntries(RowsOf(ReplacePool, {0, 2})), MaxRows),
     rp \in ReplacementArgs,
     h \in {NoneOpt, Some(<<StrV(<<"a">>)>>)},
     st \in {StyleName(<<"c", "s", "v">>), StyleName(<<"m", "a", "r", "k", "d", "o", "w", "n">>)},
     al \in {AlignStr("l"), AlignStr("r"), AlignNone}}

InitReplace == \E a \in ReplaceCalls : InitCall("print_table", a, EnvOk)
SpecReplace == InitReplace /\ [][PrintTableNext]_vars

\* The tables of the calls with every head: rows [1] and [1, 2] and the
\* markers ExtraRule and NoRule.
FrameTables ==
  TablesOf(RowEntries(RowsOf(LaTeXPool, {0})) \cup RuleEntries({"ExtraRule", "NoRule"}),
           MaxRows)

\* print_table(table, style = ..., head_row = ..., head_col = ..., top_left = 'TL',
\* transpose_data = ..., replacement = ..., caption = ..., return_lines = True,
\* show = False) and print_table_LaTeX with the same arguments but the style;
\* the replacement is {'1': '---'}.
InitFrame ==
  \E t \in FrameTables,
     h \in {NoneOpt, Some(Row(LaTeXHeadPool, 0, MaxCols))},
     hc \in {NoHeadCol, HeadColList(Row(HeadPool, 0, MaxRows))},
     tr \in BOOLEAN,
     rp \in {NoneOpt, Some(<<"1">> :> <<"-", "-", "-">>)},
     cp \in {NoneOpt, Some(<<"T">>)} :
    LET a == Quiet([DefaultArgs EXCEPT !.table = t, !.head_row = h, !.head_col = hc,
                                       !.top_left = StrV(<<"T", "L">>),
                                       !.transpose_data = tr, !.replacement = rp,
                                       !.caption = cp])
    IN  \/ \E st \in {StyleName(<<"c", "s", "v">>), StyleName(<<"l", "a", "t", "e", "x">>),
                      StyleName(<<"t", "e", "s", "t">>)} :
             InitCall("print_table", [a EXCEPT !.style = st], EnvOk)
        \/ InitCall("print_table_LaTeX", a, EnvOk)
SpecFrame == InitFrame /\ [][Next]_vars

\* print_table(table) with every other argument at its default.
PlainCalls == {[DefaultArgs EXCEPT !.table = t] : t \in LaTeXTables}

Init ==
  \/ \E a \in LaTeXCalls : InitCall("print_table_LaTeX", a, EnvOk)
  \/ \E a \in PlainCalls : InitCall("print_table", a, EnvOk)

Spec == Init /\ [][Next]_vars

-----------------------------------------------------------------------------
(* What the claims expect, stated independently of the pipeline *)

\* text.ljust(w) and text.rstrip(" ")
LJust(text, w) == text \o Spaces(w - Len(text))
RECURSIVE RStrip(_)
RStrip(text) ==
  IF text # <<>> /\ text[Len(text)] = " " THEN RStrip(SubSeq(text, 1, Len(text) - 1))
  ELSE text

\* str() of every cell of the header row and of the data rows of the call,
\* one list of texts per row.
StrRow(row) == List([c \in 1..Len(row) |-> PyStr(row[c])])
ArgRows ==
  (IF args.head_row.some THEN <<StrRow(args.head_row.v)>> ELSE <<>>)
  \o List([r \in 1..Len(CleanRows(args.table)) |-> StrRow(CleanRows(args.table)[r])])

\* The number of columns and the longest text of column c.
ArgCols == MaxOf(List([r \in 1..Len(ArgRows) |-> Len(ArgRows[r])]))
ArgWidth(c) ==
  MaxOf(List([r \in 1..Len(ArgRows) |->
                 IF c <= Len(ArgRows[r]) THEN Len(ArgRows[r][c]) ELSE 0]))

\* Row r completed with empty cells, each cell left-justified in its column.
ArgPadded(r) ==
  List([c \in 1..ArgCols |->
          LJust(IF c <= Len(ArgRows[r]) THEN ArgRows[r][c] ELSE <<>>, ArgWidth(c))])

\* C1 as the specification states it: each returned line is the cells of its
\* row joined by ',' with nothing added.
C1_JoinedUnpadded ==
  pc = "done" =>
    /\ result.some
    /\ Len(result.v) = Len(ArgRows)
    /\ \A r \in 1..Len(ArgRows) : result.v[r] = JoinText(<<",">>, ArgRows[r])

\* C1: with style csv and the default align "l", the call returns one line
\* per row (header first); in it every cell is left-justified to the width of
\* its column, a row shorter than the longest is completed with empty cells,
\* the first cell is followed by ',' and the others are joined by ','.
\* Splitting a line on ',' gives the padded cells (and one empty piece more
\* for a single column), and the values are these without trailing spaces.
C1_CsvLines ==
  pc = "done" =>
    /\ result.some
    /\ Len(result.v) = Len(ArgRows)
    /\ \A r \in 1..Len(ArgRows) :
         LET cells == ArgPadded(r)
             pieces == SplitText(result.v[r], ",")
         IN  /\ result.v[r] = cells[1] \o <<",">> \o JoinText(<<",">>, Tail(cells))
             /\ pieces = IF ArgCols = 1 THEN cells \o <<<<>>>> ELSE cells
             /\ \A c \in 1..Len(ArgRows[r]) : RStrip(pieces[c]) = ArgRows[r][c]

\* The call of the example, print_table([['a', 1], ['b', 2]],
\* head_row = ['Name', 'Val'], style = 'csv', return_lines = True), has
\* returned ['Name,Val', 'a   ,1  ', 'b   ,2  '].
C1_Witness ==
  /\ pc = "done"
  /\ args.head_row = Some(<<StrV(<<"N", "a", "m", "e">>), StrV(<<"V", "a", "l">>)>>)
  /\ args.table = <<RowE(<<StrV(<<"a">>), IntV(1)>>), RowE(<<StrV(<<"b">>), IntV(2)>>)>>
  /\ result = Some(<<<<"N", "a", "m", "e", ",", "V", "a", "l">>,
                     <<"a", " ", " ", " ", ",", "1", " ", " ">>,
                     <<"b", " ", " ", " ", ",", "2", " ", " ">>>>)

\* The data rows before and after the layout step (table_lines holds the
\* normalized rows, table the rows laid out), and the number of columns.
RowsBefore == CleanRows(table_lines)
RowsAfter == CleanRows(table)
ColsBefore == MaxOf(List([r \in 1..Len(RowsBefore) |-> Len(RowsBefore[r])]))

\* Cell c of normalized row r, the empty text where the row is shorter.
CellBefore(r, c) == IF c <= Len(RowsBefore[r]) THEN RowsBefore[r][c] ELSE <<>>

\* Whether cell is text with spaces added before and after, w long in all.
IsPadded(cell, text, w) ==
  /\ Len(cell) = w
  /\ \E a \in 0..(w - Len(text)) :
       cell = Spaces(a) \o text \o Spaces(w - Len(text) - a)

\* C2 as the specification states it: after the layout, whatever the style
\* and the align value, every cell is as long as the width of its column.
C2_EqualLengths ==
  pc = "laid_out" =>
    \A r \in 1..Len(RowsAfter) :
      /\ Len(RowsAfter[r]) = Len(col_widths)
      /\ \A c \in 1..Len(RowsAfter[r]) : Len(RowsAfter[r][c]) = col_widths[c]

\* C2: after the layout, for every style and every align value but None,
\* each row has one cell per column and each cell is the normalized text (the
\* empty text where the row was shorter) with spaces added up to the width
\* modify_col_widths returned for its column; with align None the cells are
\* the normalized texts, unpadded.
C2_PaddedUnlessNone ==
  pc = "laid_out" =>
    /\ Len(RowsAfter) = Len(RowsBefore)
    /\ \A r \in 1..Len(RowsAfter) :
         /\ Len(RowsAfter[r]) = ColsBefore
         /\ \A c \in 1..ColsBefore :
              IF args.align.kind = "None"
              THEN RowsAfter[r][c] = CellBefore(r, c)
              ELSE /\ ColsBefore = Len(col_widths)
                   /\ IsPadded(RowsAfter[r][c], CellBefore(r, c), col_widths[c])

\* A markdown table centred in its columns is laid out, with two rows whose
\* first cells were of different lengths and now are equally long.
C2_Witness ==
  /\ pc = "laid_out"
  /\ style.name = "markdown"
  /\ args.align = AlignStr("c")
  /\ \E r1, r2 \in 1..Len(RowsAfter) :
       /\ Len(RowsBefore[r1][1]) # Len(RowsBefore[r2][1])
       /\ Len(RowsAfter[r1][1]) = Len(RowsAfter[r2][1])

\* The entries the loop of the normalization goes through before anything is
\* dropped: every marker of the table, and after every data row (split into
\* its sub-rows) the MidRule the loop appends.
WouldBe ==
  Flatten(List([r \in 1..Len(table) |->
     IF IsRule(table[r]) THEN <<table[r]>>
     ELSE NewlineSplit(table[r].cells) \o <<RuleE("MidRule")>>]))

\* The markers of s that stand after exactly g data rows: before the first
\* row (g = 0), between two rows, or after the last one.
GapMarkers(s, g) ==
  {p \in 1..Len(s) : IsRule(s[p]) /\ Cardinality({q \in 1..p : ~IsRule(s[q])}) = g}
GapRules(s, g) == {s[p].rule : p \in GapMarkers(s, g)}

NoAdjacentRules(s) == \A p \in 1..(Len(s) - 1) : ~(IsRule(s[p]) /\ IsRule(s[p + 1]))

\* In every gap before a data row exactly one of the markers that would
\* follow each other is left, one of the lowest priority value among them.
LowestKept(s, would) ==
  \A g \in 0..(Len(CleanRows(would)) - 1) :
    IF GapRules(would, g) = {} THEN GapMarkers(s, g) = {}
    ELSE /\ Cardinality(GapMarkers(s, g)) = 1
         /\ \A k \in GapRules(s, g) :
              /\ k \in GapRules(would, g)
              /\ \A m \in GapRules(would, g) : Priority(k) <= Priority(m)

\* The lines of formatted_lines that render a data row, and the k-th of them.
DataLines ==
  {n \in 1..Len(formatted_lines) :
     \E p \in 1..Len(table) :
       ~IsRule(table[p]) /\ formatted_lines[n] = StyleRow(style, table[p].cells)}
DataLine(k) == CHOOSE n \in DataLines : Cardinality({m \in DataLines : m < n}) = k - 1

\* The number of lines rendered between the k-th data line and the next.
LinesAfter(k) == DataLine(k + 1) - DataLine(k) - 1

\* The call has the data rows [r1, ExtraRule, r2].
ExtraBetweenTwoRows ==
  /\ Len(args.table) = 3
  /\ ~IsRule(args.table[1])
  /\ args.table[2] = RuleE("ExtraRule")
  /\ ~IsRule(args.table[3])

\* The number of the last data line of r1 in [r1, ExtraRule, r2]: the header
\* line and the sub-rows of r1 come before r2.
LastLineOfFirst ==
  (IF args.head_row.some THEN 1 ELSE 0)
  + Len(CleanRows(NewlineSplit(StrRow(args.table[1].cells))))

LineBreaks(text) == Cardinality({k \in 1..Len(text) : text[k] = NL})
SubRowCount(row) == 1 + MaxOf(List([c \in 1..Len(row) |-> LineBreaks(row[c])]))
SubRowsOf(row) ==
  List([j \in 1..SubRowCount(row) |->
     List([c \in 1..Len(row) |->
        LET cell_lines == SplitText(row[c], NL)
        IN  IF j <= Len(cell_lines) THEN cell_lines[j] ELSE <<>>])])

\* The number of sub-rows of the rows before row r of ArgRows.
RECURSIVE SubRowsBefore(_)
SubRowsBefore(r) ==
  IF r <= 1 THEN 0 ELSE SubRowsBefore(r - 1) + SubRowCount(ArgRows[r - 1])

\* The place in table_lines of the n-th data row.
LinePlace(n) ==
  CHOOSE p \in 1..Len(table_lines) :
    ~IsRule(table_lines[p])
    /\ Cardinality({q \in 1..p : ~IsRule(table_lines[q])}) = n

\* C4: a row whose cell with the most line breaks has k of them is
\* normalized to k + 1 sub-rows of the same cell count, the j-th holding the
\* j-th line of each cell or the empty text, consecutive but for the one
\* NoRule marker between each two; csv, tsv, latex and markdown then render
\* their lines with no line between them.
C4_SubRows ==
  /\ pc = "normalized" =>
       /\ CleanRows(table_lines)
            = Flatten(List([r \in 1..Len(ArgRows) |-> SubRowsOf(ArgRows[r])]))
       /\ \A r \in 1..Len(ArgRows) :
            \A j \in 1..(SubRowCount(ArgRows[r]) - 1) :
              LET p == LinePlace(SubRowsBefore(r) + j)
              IN  /\ table_lines[p + 1] = RuleE("NoRule")
                  /\ ~IsRule(table_lines[p + 2])
  /\ pc = "rendered" /\ style.name \in {"csv", "tsv", "latex", "markdown"} =>
       \A r \in 1..Len(ArgRows) :
         \A j \in 1..(SubRowCount(ArgRows[r]) - 1) :
           LinesAfter(SubRowsBefore(r) + j) = 0

\* The table [['b\ncd', 12]] is rendered as LaTeX: two sub-rows, 'b' and 12
\* in the first, 'cd' and the empty text in the second, their lines adjacent.
C4_Witness ==
  /\ pc = "rendered"
  /\ style.name = "latex"
  /\ args.table = <<RowE(<<StrV(<<"b", NL, "c", "d">>), IntV(12)>>)>>
  /\ ~args.head_row.some
  /\ CleanRows(table_lines) = <<<<<<"b">>, <<"1", "2">>>>, <<<<"c", "d">>, <<>>>>>>
  /\ Cardinality(DataLines) = 2
  /\ LinesAfter(1) = 0

\* The alignment of column c as the call asks for it ("None" for None; a
\* column beyond an align list is left-aligned), and the least width each
\* alignment needs in markdown.
ColAlign(c) ==
  CASE args.align.kind = "None" -> "None"
    [] args.align.kind = "str" -> args.align.s
    [] OTHER -> IF c <= Len(args.align.list) THEN args.align.list[c] ELSE "l"
LeastWidth(a) == CASE a = "None" -> 3 [] a = "c" -> 5 [] OTHER -> 4

\* The longest normalized text of column c.
WidthBefore(c) == MaxOf(List([r \in 1..Len(RowsBefore) |-> Len(CellBefore(r, c))]))

\* The cell of the markdown separator for an alignment and a width.
SeparatorCell(a, w) ==
  CASE a = "l" -> <<":">> \o Repeat("-", w - 1)
    [] a = "c" -> <<":">> \o Repeat("-", w - 2) \o <<":">>
    [] a = "r" -> Repeat("-", w - 1) \o <<":">>
    [] OTHER -> Repeat("-", w)

\* The markdown separator line: '|', the first cell, '|', the other cells
\* joined by '|', and '|'.
SeparatorLine ==
  LET cells == List([c \in 1..Len(col_widths) |-> SeparatorCell(ColAlign(c), col_widths[c])])
  IN  <<"|">> \o cells[1] \o <<"|">> \o JoinText(<<"|">>, Tail(cells)) \o <<"|">>

\* The widths and the rule lines of a markdown table: the only lines besides
\* the data lines are those of its HeadRule markers, each the separator line.
MarkdownRules ==
  /\ Cardinality(DataLines) = Len(RowsAfter)
  /\ Len(formatted_lines) - Cardinality(DataLines)
       = Cardinality({p \in 1..Len(table_lines) : table_lines[p] = RuleE("HeadRule")})
  /\ \A n \in (1..Len(formatted_lines)) \ DataLines :
       /\ formatted_lines[n] = SeparatorLine
       /\ \A c \in 1..Len(col_widths) :
            Len(SeparatorCell(ColAlign(c), col_widths[c])) = col_widths[c]

SeparatorAsLongAsData ==
  \A n \in (1..Len(formatted_lines)) \ DataLines :
    \A m \in DataLines : Len(formatted_lines[n]) = Len(formatted_lines[m])

LaTeXCells(line) ==
  LET pieces == SplitText(SubSeq(line, 1, Len(line) - 2), "&")
  IN  List([k \in 1..Len(pieces) |-> RStrip(pieces[k])])
EndsRow(line) == Len(line) >= 2 /\ SubSeq(line, Len(line) - 1, Len(line)) = <<"\\", "\\">>

\* Whether the cells are the texts, followed by empty cells only.
CellsAre(cells, texts) ==
  /\ Len(cells) >= Len(texts)
  /\ \A k \in 1..Len(cells) : cells[k] = IF k <= Len(texts) THEN texts[k] ELSE <<>>

\* The header cells print_table_LaTeX is expected to make of head_row: the
\* top left cell first when there is a head column, each cell in its macro
\* (\thfl first, \thfr last, \thfm between).
HeaderTexts ==
  LET n == Len(args.head_row.v)
      with_col == args.head_col.kind # "None"
  IN  (IF with_col THEN <<Thf("l", PyStr(args.top_left))>> ELSE <<>>)
      \o List([k \in 1..n |->
            Thf(IF k = n THEN "r" ELSE IF k = 1 /\ ~with_col THEN "l" ELSE "m",
                PyStr(args.head_row.v[k]))])

\* The cells expected of the first data row (its number first when the head
\* column enumerates).
FirstRowTexts ==
  (IF args.head_col.kind # "None" THEN <<<<"1">>>> ELSE <<>>)
  \o StrRow(args.table[1].cells)

\* C6: the lines print_table_LaTeX returns hold, in this order, the caption,
\* the label, the opening of the tabular, then the body of print_table with
\* the latex style in one piece up to '\end{tabular}': '\toprule' first,
\* then (a header row being given) the header row joined by '&' and ending
\* in '\\', '\midrule' and the first data row when the table starts with
\* one; '\bottomrule' is the last line of the body.
C6_LaTeXOrder ==
  (fn = "print_table_LaTeX" /\ pc = "done") =>
    LET lines == result.v
        n == Len(lines)
        b == Len(formatted_lines)
    IN  /\ result.some
        /\ args.caption.some =>
             lines[3] = <<"\\caption{">> \o args.caption.v \o <<"}">>
        /\ args.LaTeX_label.some =>
             lines[4] = <<"\\label{tab:">> \o args.LaTeX_label.v \o <<"}">>
        /\ lines[5] = <<"\\begin{tabular}{@{}">>
        /\ n - b - 1 > 5
        /\ SubSeq(lines, n - b - 1, n - 2) = formatted_lines
        /\ lines[n - 1] = <<"\\end{tabular}">>
        /\ \A k \in 1..n :
             lines[k] \in {<<"\\toprule">>, <<"\\midrule">>, <<"\\bottomrule">>}
               \/ EndsRow(lines[k])
             => k \in (n - b - 1)..(n - 2)
        /\ formatted_lines[1] = <<"\\toprule">>
        /\ formatted_lines[b] = <<"\\bottomrule">>
        /\ (args.head_row.some /\ args.head_row.v # <<>>) =>
             /\ EndsRow(formatted_lines[2])
             /\ CellsAre(LaTeXCells(formatted_lines[2]), HeaderTexts)
             /\ (args.table # <<>> /\ ~IsRule(args.table[1])) =>
                  /\ formatted_lines[3] = <<"\\midrule">>
                  /\ EndsRow(formatted_lines[4])
                  /\ CellsAre(LaTeXCells(formatted_lines[4]), FirstRowTexts)

\* print_table_LaTeX(table = [[1, 2]], head_row = ['X', 'Y'], caption = 'T',
\* LaTeX_label = 't1') has returned its fourteen lines.
C6_Witness ==
  /\ fn = "print_table_LaTeX"
  /\ pc = "done"
  /\ args.table = <<RowE(<<IntV(1), IntV(2)>>)>>
  /\ args.head_row = Some(<<StrV(<<"X">>), StrV(<<"Y">>)>>)
  /\ result =
       Some(<<<<"\\begin{table}[!htbp]">>,
              <<"\\centering">>,
              <<"\\caption{", "T", "}">>,
              <<"\\label{tab:", "t", "1", "}">>,
              <<"\\begin{tabular}{@{}">>,
              <<"*{", "2", "}{", "l", "}">>,
              <<"@{}}">>,
              <<"\\toprule">>,
              <<"\\", "t", "h", "f", "l", "{", "X", "}", "&",
                "\\", "t", "h", "f", "r", "{", "Y", "}", "\\", "\\">>,
              <<"\\midrule">>,
              <<"1", " ", " ", " ", " ", " ", " ", " ", "&",
                "2", " ", " ", " ", " ", " ", " ", " ", "\\", "\\">>,
              <<"\\bottomrule">>,
              <<"\\end{tabular}">>,
              <<"\\end{table}">>>>)

\* The data rows of the call, and what their transposition is expected to
\* be: row c holds cell c of every data row, the empty str where a row is
\* shorter.
DataRowsIn == CleanRows(args.table)
TransposedRows ==
  List([c \in 1..MaxOf(List([r \in 1..Len(DataRowsIn) |-> Len(DataRowsIn[r])])) |->
     List([r \in 1..Len(DataRowsIn) |->
        IF c <= Len(DataRowsIn[r]) THEN DataRowsIn[r][c] ELSE StrV(<<>>)])])

\* The body the formatter is expected to work on.
ExpectedBody ==
  IF args.transpose_data
  THEN List([r \in 1..Len(TransposedRows) |-> RowE(TransposedRows[r])])
  ELSE args.table

\* The text a template is expected to make of a value: the formatted value,
\* or str(value) where the template does not apply.
Intended(tpl, v) == IF CanFormat(tpl, v) THEN FormatWith(tpl, v) ELSE PyStr(v)

\* C7 as the specification states it: with transpose_data the data rows are
\* transposed and every rule marker of the table is back at its index.
C7_MarkersKept ==
  (pc = "formatted" /\ args.transpose_data) =>
    /\ Len(CleanRows(table)) = Len(TransposedRows)
    /\ \A p \in 1..Len(args.table) :
         IsRule(args.table[p]) => p <= Len(table) /\ table[p] = args.table[p]

\* C8 as the specification states it: with a nested list formatter the cell
\* (i, j) is formatted with formatter[i][j], and a single str formatter is
\* applied to every cell.
C8_PerCellTemplate ==
  (pc = "formatted" /\ ~args.transpose_data /\ args.formatter.kind \in {"nested", "str"}) =>
    /\ Len(table) = Len(args.table)
    /\ \A r \in 1..Len(args.table) :
         ~IsRule(args.table[r]) =>
           /\ ~IsRule(table[r])
           /\ Len(table[r].cells) = Len(args.table[r].cells)
           /\ \A c \in 1..Len(args.table[r].cells) :
                table[r].cells[c]
                  = Intended(IF args.formatter.kind = "str" THEN args.formatter.tpl
                             ELSE args.formatter.nested[r][c],
                             args.table[r].cells[c])

\* The template of column c of a None, str or flat list formatter.
ColumnTemplate(c) ==
  CASE args.formatter.kind = "None" -> ""
    [] args.formatter.kind = "str" -> args.formatter.tpl
    [] OTHER -> args.formatter.flat[c]

\* C9: no call ends with an exception of the formatting, and each cell the
\* formatter reaches (every cell for None or a str, those a flat list has a
\* template for) is its formatted value where the template applies and
\* str(value) where it fails, whatever happens to the other cells.
C9_FallbackToStr ==
  /\ pc # "raised"
  /\ (pc = "formatted" /\ args.formatter.kind # "nested") =>
       /\ Len(table) = Len(ExpectedBody)
       /\ \A r \in 1..Len(ExpectedBody) :
            IF IsRule(ExpectedBody[r]) THEN table[r] = ExpectedBody[r]
            ELSE /\ ~IsRule(table[r])
                 /\ Len(table[r].cells)
                      = IF args.formatter.kind = "list"
                        THEN Min(Len(ExpectedBody[r].cells), Len(args.formatter.flat))
                        ELSE Len(ExpectedBody[r].cells)
                 /\ \A c \in 1..Len(table[r].cells) :
                      table[r].cells[c] = Intended(ColumnTemplate(c), ExpectedBody[r].cells[c])

\* print_table([[3, 4.25]], formatter = ':d', style = 'test') has returned:
\* the 3 is formatted, the 4.25, which ':d' cannot format, is str(4.25).
C9_Witness ==
  /\ pc = "done"
  /\ args.table = <<RowE(<<IntV(3), FloatV(425)>>)>>
  /\ args.formatter = FormatterStr(":d")
  /\ args.head_col = NoHeadCol /\ ~args.head_row.some /\ ~args.transpose_data
  /\ result.some
  /\ result.v[2] = <<"^", ">", " ", "3", " ", "<", "|", "|", ">", " ",
                     "4", ".", "2", "5", " ", "<", "$">>

\* The number of data rows of the (possibly transposed) body, and whether the
\* head column is to be enumerated.
BodyRows == Len(CleanRows(ExpectedBody))
Enumerated == args.head_col.kind = "str"

\* The first cells of the data rows of a table, header row left out.
HeadCells(tbl) ==
  LET rows == CleanRows(tbl)
      skip == IF args.head_row.some THEN 1 ELSE 0
  IN  List([k \in 1..(Len(rows) - skip) |-> rows[k + skip][1]])

\* The place of entry p of the body once the header row stands before the
\* body and the HeadRule after the first entry.
PlaceWithHeads(p) ==
  LET q == p + (IF args.head_row.some THEN 1 ELSE 0)
  IN  IF ~args.omit_headrule /\ q > 1 THEN q + 1 ELSE q

\* C10: with head_col 'enumerate' in any spelling of upper and lower case
\* the data rows of the (possibly transposed) body get the head cells
\* '1'..'N' in their order, N being their number, whatever rule markers stand
\* between them (these stay where they are); the header row gets top_left;
\* and of the sub-rows of a row only the first has the head cell, the
\* others the empty text.
C10_Enumerate ==
  Enumerated =>
    /\ pc \in {"normalize", "normalized"} =>
         /\ HeadCells(table) = List([k \in 1..BodyRows |-> IntStr(k)])
         /\ args.head_row.some =>
              table[1] = RowE(<<PyStr(args.top_left)>> \o StrRow(args.head_row.v))
         /\ \A p \in 1..Len(ExpectedBody) :
              IsRule(ExpectedBody[p]) => table[PlaceWithHeads(p)] = ExpectedBody[p]
    /\ pc = "normalized" =>
         /\ Len(CleanRows(table_lines)) >= Len(CleanRows(table))
         /\ \A p \in 1..Len(table_lines) :
              ~IsRule(table_lines[p]) =>
                IF p > 1 /\ table_lines[p - 1] = RuleE("NoRule")
                THEN table_lines[p].cells[1] = <<>>
                ELSE table_lines[p].cells[1] # <<>>

\* The table [[1.5, 'a\nb'], [3, 4.25]] under a header row, with head_col =
\* 'ENUMERATE', is normalized: the head cells are 'TL', '1', '' and '2'.
C10_Witness ==
  /\ pc = "normalized"
  /\ args.head_col = HeadColStr(<<"E", "N", "U", "M", "E", "R", "A", "T", "E">>)
  /\ args.head_row.some
  /\ ~args.transpose_data
  /\ args.table = <<RowE(<<FloatV(150), StrV(<<"a", NL, "b">>)>>),
                    RowE(<<IntV(3), FloatV(425)>>)>>
  /\ List([k \in 1..Len(CleanRows(table_lines)) |-> CleanRows(table_lines)[k][1]])
       = <<<<"T", "L">>, <<"1">>, <<>>, <<"2">>>>

\* Whether the table of the call holds a marker of the kind.
HasMarker(name) == \E p \in 1..Len(args.table) : args.table[p] = RuleE(name)

\* The places of the HeadRule markers in a sequence of entries.
HeadRulePlaces(s) == {p \in 1..Len(s) : s[p] = RuleE("HeadRule")}

\* C11 as the specification states it: unless omit_headrule is set, and the
\* caller's table holding no HeadRule of its own, the table with its heads
\* holds exactly one HeadRule marker, the normalized row sequence holds it,
\* and the row right before it there is the header row (its last sub-row).
C11_HeadRuleAfterHeader ==
  (pc = "normalized" /\ ~args.omit_headrule /\ ~HasMarker("HeadRule")) =>
    /\ Cardinality(HeadRulePlaces(table)) = 1
    /\ Cardinality(HeadRulePlaces(table_lines)) = 1
    /\ args.head_row.some
    /\ \A p \in HeadRulePlaces(table_lines) :
         /\ p > 1
         /\ ~IsRule(table_lines[p - 1])
         /\ p - 1 = LinePlace(SubRowCount(StrRow(args.head_row.v)))

\* The text justified in w places as an alignment asks for it: to the left
\* ('l' and ''), to the right ('r'), or centred with the odd space on the
\* right ('c').
Justified(a, text, w) ==
  LET gap == w - Len(text)
  IN  CASE a = "r" -> Spaces(gap) \o text
        [] a = "c" -> Spaces(gap \div 2) \o text \o Spaces(gap - gap \div 2)
        [] OTHER -> text \o Spaces(gap)

\* The cells the final rows of the call are expected to have, for tables of
\* one-line cells: the header row (after top_left when there is a head
\* column), then each data row after its head cell (its number for
\* 'enumerate', else the entry of the list).
HeadCellText(k) ==
  IF args.head_col.kind = "str" THEN IntStr(k) ELSE PyStr(args.head_col.list[k])
FinalRows ==
  LET with_col == args.head_col.kind # "None"
      rows == CleanRows(args.table)
  IN  (IF args.head_row.some
       THEN <<(IF with_col THEN <<PyStr(args.top_left)>> ELSE <<>>) \o StrRow(args.head_row.v)>>
       ELSE <<>>)
      \o List([k \in 1..Len(rows) |->
            (IF with_col THEN <<HeadCellText(k)>> ELSE <<>>) \o StrRow(rows[k])])
FinalCols == MaxOf(List([r \in 1..Len(FinalRows) |-> Len(FinalRows[r])]))
FinalCell(r, c) == IF c <= Len(FinalRows[r]) THEN FinalRows[r][c] ELSE <<>>

\* C12: laid out, every cell of final column c (the head column being the
\* first when head_col is given) is its text justified as entry c of an
\* align list says, to the left for a column beyond the end of the list, and
\* as the align string says, for every column, when align is one string.
C12_ColumnAlignments ==
  pc = "laid_out" =>
    /\ Len(RowsAfter) = Len(FinalRows)
    /\ Len(col_widths) = FinalCols
    /\ \A r \in 1..Len(FinalRows) :
         /\ Len(RowsAfter[r]) = FinalCols
         /\ \A c \in 1..FinalCols :
              RowsAfter[r][c] = Justified(ColAlign(c), FinalCell(r, c), col_widths[c])

\* print_table([['a', 1], ['2', 'cd']], head_col = 'enumerate',
\* align = ['r', 'c'], style = 'markdown') is laid out: the head column is
\* right-aligned, the first data column centred, the second, beyond the
\* list, left-aligned.
C12_Witness ==
  /\ pc = "laid_out"
  /\ args.head_col = HeadColStr(EnumerateText)
  /\ args.align = AlignSeq(<<"r", "c">>)
  /\ ~args.head_row.some
  /\ style.name = "markdown"
  /\ args.table = <<RowE(<<StrV(<<"a">>), IntV(1)>>), RowE(<<IntV(2), StrV(<<"c", "d">>)>>)>>
  /\ RowsAfter = <<<<<<" ", " ", " ", "1">>, <<" ", " ", "a", " ", " ">>, <<"1", " ", " ", " ">>>>,
                   <<<<" ", " ", " ", "2">>, <<" ", " ", "2", " ", " ">>, <<"c", "d", " ", " ">>>>>>

\* C13 as the specification states it: laid out, every cell of a column
\* whose alignment is None, given for the whole table or as the entry of the
\* column in an align list, is its normalized text with nothing added.
C13_NoneUnpadded ==
  pc = "laid_out" =>
    \A r \in 1..Len(RowsAfter) :
      \A c \in 1..Len(RowsAfter[r]) :
        ColAlign(c) = "None" => RowsAfter[r][c] = CellBefore(r, c)

\* The three configuration errors of a call: a style name of no style class,
\* an align value of a wrong type, a LaTeX_format of a wrong type.
UnknownStyle ==
  fn = "print_table" /\ args.style.isname /\ Lower(args.style.name) \notin StyleClasses
WrongAlign == args.align.kind \notin {"None", "str", "list"}
WrongFormat ==
  fn = "print_table_LaTeX" /\ args.LaTeX_format.kind \notin {"str", "list"}

\* C14: a call with a configuration error never gets as far as laying out,
\* rendering or returning: nothing is printed, the destination holds what it
\* held before the call and no lines are returned; an unknown style name
\* ends the call with RuntimeError at once, a LaTeX_format of a wrong type
\* with ValueError before print_table is called, an align of a wrong type
\* with an exception before the layout.  A name of a style class in any
\* letter case and a Style instance are accepted: no RuntimeError, and the
\* style used is that class or instance.
C14_ConfigErrors ==
  /\ (UnknownStyle \/ WrongAlign \/ WrongFormat) =>
       /\ pc \notin {"laid_out", "rendered", "returned", "done"}
       /\ stdout = <<>>
       /\ disk = env.old
       /\ ~result.some
  /\ UnknownStyle =>
       /\ pc \in {"start", "raised"}
       /\ pc = "raised" => exc = "RuntimeError"
  /\ WrongFormat =>
       /\ pc \in {"latex", "raised"}
       /\ pc = "raised" => exc = "ValueError"
  /\ (WrongAlign /\ pc = "raised" /\ args.table # <<>> /\ ~UnknownStyle /\ ~WrongFormat) =>
       exc = "ValueError"
  /\ (fn = "print_table" /\ ~UnknownStyle) =>
       /\ exc # "RuntimeError"
       /\ pc \notin {"start", "raised"} =>
            style.name = IF args.style.isname THEN ClassName(Lower(args.style.name))
                         ELSE args.style.inst

\* print_table([[1]], style = 'cvs', file = 'f', show = True) has raised
\* RuntimeError: nothing is printed and the file 'f' holds its old line.
C14_Witness ==
  /\ pc = "raised"
  /\ exc = "RuntimeError"
  /\ args.style = StyleName(<<"c", "v", "s">>)
  /\ args.table = <<RowE(<<IntV(1)>>)>>
  /\ args.file.some
  /\ args.show = "True"
  /\ env.old = Some(<<<<"o", "l", "d">>>>)
  /\ disk = env.old
  /\ stdout = <<>>

\* The lines the call hands to _output_table, whether the write to the
\* destination fails, and the message printed when it does.
LinesOut == IF fn = "print_table" THEN formatted_lines ELSE latex_lines
WriteFailure == args.file.some /\ (~env.open \/ env.fail_at \in 1..Len(LinesOut))
FailureMessage == <<"Failed to save table to file ">> \o args.file.v

\* C15: no call ends with an exception of the output; nothing is printed or
\* written before the call is done; once it is done, the lines are printed
\* exactly when show is True, or None with no file given, after the message
\* of a failed write and nothing else; the destination is untouched when no
\* file is given and holds the lines when one is given and nothing fails;
\* and the lines are returned exactly when return_lines is set, whether or
\* not the write failed.
C15_OutputTable ==
  /\ pc # "raised"
  /\ pc # "done" => stdout = <<>> /\ disk = env.old
  /\ pc = "done" =>
       /\ stdout = (IF WriteFailure THEN <<FailureMessage>> ELSE <<>>)
                   \o (IF args.show = "True" \/ (args.show = "None" /\ ~args.file.some)
                       THEN LinesOut ELSE <<>>)
       /\ ~args.file.some => disk = env.old
       /\ (args.file.some /\ ~WriteFailure) => disk = Some(LinesOut)
       /\ result = IF args.return_lines THEN Some(LinesOut) ELSE NoneOpt

\* print_table([[1]], file = 'f', show = True, return_lines = True) is done,
\* the file could not be opened: the message and the line are printed, the
\* line is returned.
C15_Witness ==
  /\ pc = "done"
  /\ fn = "print_table"
  /\ args.table = <<RowE(<<IntV(1)>>)>>
  /\ args.file.some /\ args.show = "True" /\ args.return_lines
  /\ ~env.open
  /\ stdout = <<<<"Failed to save table to file ", "f">>, <<"1", ",">>>>
  /\ result = Some(<<<<"1", ",">>>>)

\* C16 as the specification states it: once the call is done, the
\* destination holds either exactly the new lines or what it held before.
C16_AllOrNothing ==
  (pc = "done" /\ args.file.some) => (disk = Some(LinesOut) \/ disk = env.old)

\* C17: whenever a call has returned or raised, every earlier call of the
\* same function with the same arguments (the same Style instance among
\* them) gave the same lines, or raised the same exception, whatever calls
\* were made before or in between and whatever they printed or wrote.
C17_SameArgsSameLines ==
  pc \in {"done", "raised"} =>
    \A k \in 1..Len(calls) :
      (calls[k].fn = fn /\ calls[k].args = args) =>
        /\ calls[k].result = result
        /\ calls[k].exc = exc

\* print_table([[1, 2]], style = s, return_lines = True) with the Style
\* instance s (markdown) has returned its line for the second time,
\* after a call with another table that wrote its lines to the file 'f'.
C17_Witness ==
  /\ pc = "done"
  /\ Len(calls) = 2
  /\ fn = "print_table"
  /\ args.style = StyleInstance("markdown")
  /\ args.table = <<RowE(<<IntV(1), IntV(2)>>)>>
  /\ calls[1].fn = fn /\ calls[1].args = args
  /\ calls[2].args.table # args.table /\ calls[2].args.file.some
  /\ disk.some
  /\ result = Some(<<<<"|", "1", " ", " ", " ", "|", "2", " ", " ", " ", "|">>>>)
  /\ calls[1].result = result

\* Whether the table of the call has data rows only, of one-line cells.
OnlyPlainRows ==
  \A p \in 1..Len(args.table) :
    /\ ~IsRule(args.table[p])
    /\ \A c \in 1..Len(args.table[p].cells) : ~HasChar(PyStr(args.table[p].cells[c]), NL)

\* C18 as the specification states it: a table of N >= 0 data rows of
\* one-line cells and no rule marker, printed without head_row, head_col and
\* caption and with omit_headrule = True, never fails; csv returns exactly N
\* lines, the k-th holding the cells of the k-th row in their order, and any
\* other style at least N lines.
C18_LinePerRow ==
  (OnlyPlainRows /\ args.omit_headrule /\ ~args.head_row.some
     /\ args.head_col.kind = "None" /\ ~args.caption.some) =>
    /\ pc # "raised"
    /\ pc = "done" =>
         /\ result.some
         /\ Len(result.v) >= Len(args.table)
         /\ style.name = "csv" =>
              /\ Len(result.v) = Len(args.table)
              /\ \A k \in 1..Len(args.table) :
                   LET pieces == SplitText(result.v[k], ",")
                   IN  \A c \in 1..Len(args.table[k].cells) :
                         RStrip(pieces[c]) = PyStr(args.table[k].cells[c])

\* The text a cell is expected to show: the value of the replacement map
\* for a text that is one of its keys, else the text itself.
Replaced(text) ==
  IF args.replacement.some /\ text \in DOMAIN args.replacement.v
  THEN args.replacement.v[text] ELSE text

\* The longest expected text of column c.
ReplacedWidth(c) ==
  MaxOf(List([r \in 1..Len(RowsBefore) |-> Len(Replaced(CellBefore(r, c)))]))

SpecLines ==
  LET lines == result.v
      close == CHOOSE k \in 6..Len(lines) :
                 lines[k] = <<"@{}}">> /\ \A m \in 6..(k - 1) : lines[m] # <<"@{}}">>
  IN  SubSeq(lines, 6, close - 1)

\* The letter of column c in the specification lines of a call without head
\* column: the letter of the one line for a str format, that of line c for
\* a list.
SpecLetter(c) ==
  IF args.LaTeX_format.kind = "str" THEN SubSeq(SpecLines[1], 4, Len(SpecLines[1]) - 1)
  ELSE SubSeq(SpecLines[c], 4, Len(SpecLines[c]) - 1)

\* C20 as the specification states it: LaTeX_format being left at its
\* default, the letter of every column in the column specification is the
\* alignment the body uses for that column.
C20_SpecFromAlign ==
  (fn = "print_table_LaTeX" /\ pc = "done"
     /\ args.LaTeX_format = DefaultArgs.LaTeX_format) =>
    \A c \in 1..ColsBefore : SpecLetter(c) = <<ColAlign(c)>>

\* C20: the column specification print_table_LaTeX emits is made of
\* LaTeX_format alone, whose default is 'l': '*{n}{format}' for a str, n
\* being the number of cells of the first row of the table, and one
\* '*{1}{entry}' per entry for a list; the align argument only decides how
\* the cells of the body are padded (not at all for None), so the letters
\* and the alignments of the body agree only where align says the same as
\* LaTeX_format.
C20_SpecFromFormat ==
  (fn = "print_table_LaTeX" /\ pc = "done") =>
    /\ result.some
    /\ result.v[5] = <<"\\begin{tabular}{@{}">>
    /\ SpecLines
         = IF args.LaTeX_format.kind = "str"
           THEN <<<<"*{">> \o IntStr(Len(args.table[1].cells)) \o <<"}{">>
                  \o args.LaTeX_format.s \o <<"}">>>>
           ELSE List([k \in 1..Len(args.LaTeX_format.list) |->
                        <<"*{", "1", "}{">> \o args.LaTeX_format.list[k] \o <<"}">>])
    /\ alignments.none = (args.align.kind = "None")
    /\ \A c \in 1..ColsBefore :
         /\ ~alignments.none => alignments.list[c] = ColAlign(c)
         /\ \A r \in 1..Len(RowsAfter) :
              RowsAfter[r][c]
                = IF ColAlign(c) = "None" THEN CellBefore(r, c)
                  ELSE Justified(ColAlign(c), CellBefore(r, c), col_widths[c])

\* print_table_LaTeX([[1], [1, 2]], align = ['c']) has returned: the column
\* specification is '*{1}{l}', the first column of the body is centred.
C20_Witness ==
  /\ fn = "print_table_LaTeX"
  /\ pc = "done"
  /\ args.table = <<RowE(<<IntV(1)>>), RowE(<<IntV(1), IntV(2)>>)>>
  /\ args.align = AlignSeq(<<"c">>)
  /\ args.LaTeX_format = DefaultArgs.LaTeX_format
  /\ SpecLines = <<<<"*{", "1", "}{", "l", "}">>>>
  /\ alignments = AlignList(<<"c", "l">>)


\* The place of the first line of the lines that is the text.
PlaceOf(lines, text) ==
  CHOOSE k \in 1..Len(lines) : lines[k] = text /\ \A m \in 1..(k - 1) : lines[m] # text

\* C21 as the specification states it: print_table_LaTeX puts the table_head
\* it is given after the line '\toprule' and before the header row (the
\* first line of a row).
C21_TableHeadAfterTopRule ==
  (fn = "print_table_LaTeX" /\ pc = "done" /\ args.table_head.some) =>
    LET lines == result.v
        head == PlaceOf(lines, args.table_head.v)
    IN  /\ \E k \in 1..Len(lines) : lines[k] = args.table_head.v
        /\ PlaceOf(lines, <<"\\toprule">>) < head
        /\ \A k \in 1..Len(lines) : EndsRow(lines[k]) => head < k


\* The number of data cells of a row laid out: its cells but the head cell.
DataCells(row) == Len(row) - (IF args.head_col.kind # "None" THEN 1 ELSE 0)

\* C22 as the specification states it: for a str LaTeX_format the line
\* '*{n}{format}' print_table_LaTeX emits has for n the number of data cells
\* of each row of the body, with transpose_data as well.
C22_SpecCoversColumns ==
  (fn = "print_table_LaTeX" /\ pc = "done" /\ args.LaTeX_format.kind = "str") =>
    \A r \in 1..Len(RowsAfter) :
      \E k \in 1..Len(result.v) :
        result.v[k] = ColSpec(DataCells(RowsAfter[r]), args.LaTeX_format.s)


\* Whether the rows of the call (header row included) differ in length.
Mismatch == \E r, q \in 1..Len(ArgRows) : Len(ArgRows[r]) # Len(ArgRows[q])

\* C23 as the specification states it: a call whose rows differ in their
\* cell count does not return; it ends with an exception.
C23_MismatchRaises == Mismatch => pc # "done"

\* C23: a call whose rows (header row included) differ in their cell count
\* never raises; laid out, every row has as many cells as the longest, its
\* own texts in their places (none cut off) and after them cells that hold
\* spaces only; and the call returns one line per row.
C23_MismatchCompleted ==
  Mismatch =>
    /\ pc # "raised"
    /\ pc = "laid_out" =>
         /\ Len(RowsAfter) = Len(ArgRows)
         /\ \A r \in 1..Len(ArgRows) :
              /\ Len(RowsAfter[r]) = ArgCols
              /\ \A c \in 1..ArgCols :
                   RStrip(RowsAfter[r][c])
                     = IF c <= Len(ArgRows[r]) THEN ArgRows[r][c] ELSE <<>>
    /\ pc = "done" => result.some /\ Len(result.v) = Len(ArgRows)

\* print_table([['a'], ['b', 2]], head_row = ['Name', 'Val'], style = 'csv')
\* has returned: the row of one cell is completed with an empty cell.
C23_Witness ==
  /\ pc = "done"
  /\ args.head_row = Some(<<StrV(<<"N", "a", "m", "e">>), StrV(<<"V", "a", "l">>)>>)
  /\ args.table = <<RowE(<<StrV(<<"a">>)>>), RowE(<<StrV(<<"b">>), IntV(2)>>)>>
  /\ result = Some(<<<<"N", "a", "m", "e", ",", "V", "a", "l">>,
                     <<"a", " ", " ", " ", ",", " ", " ", " ">>,
                     <<"b", " ", " ", " ", ",", "2", " ", " ">>>>)


\* C24: laid out, the sequence handed to rendering is as long as the
\* normalized one, holds a rule marker exactly where that one does, and the
\* same marker; and its data rows are those of the normalized sequence in
\* their order, each cell being the (replaced) text, padded.
C24_MarkersUntouched ==
  pc = "laid_out" =>
    /\ Len(table) = Len(table_lines)
    /\ \A p \in 1..Len(table_lines) :
         IF IsRule(table_lines[p]) THEN table[p] = table_lines[p] ELSE ~IsRule(table[p])
    /\ \A r \in 1..Len(RowsBefore) :
         \A c \in 1..Len(RowsBefore[r]) :
           RStrip(RowsAfter[r][c]) = Replaced(RowsBefore[r][c])

\* print_table([[1], [1, 2]], head_row = ['X', 'Y'],
\* replacement = {'1': '---'}) is laid out: the HeadRule is the second entry
\* and the MidRule between the two rows the fourth, before and after the
\* layout.
C24_Witness ==
  /\ pc = "laid_out"
  /\ fn = "print_table"
  /\ args.replacement.some
  /\ args.table = <<RowE(<<IntV(1)>>), RowE(<<IntV(1), IntV(2)>>)>>
  /\ args.head_row.some /\ args.head_col = NoHeadCol /\ ~args.transpose_data
  /\ {p \in 1..Len(table_lines) : IsRule(table_lines[p])} = {2, 4}
  /\ table[2] = RuleE("HeadRule")
  /\ table[4] = RuleE("MidRule")
  /\ table[3].cells[1] = <<"-", "-", "-">>


\* C25 as the specification states it: for every formatter (None, a str, a
\* flat list, a nested list) the table _apply_format returns has the entries
\* of the table it was given: each marker in its place and each data row
\* with its number of cells.
C25_SameDimensions ==
  pc = "formatted" =>
    /\ Len(table) = Len(ExpectedBody)
    /\ \A r \in 1..Len(ExpectedBody) :
         IF IsRule(ExpectedBody[r]) THEN table[r] = ExpectedBody[r]
         ELSE /\ ~IsRule(table[r])
              /\ Len(table[r].cells) = Len(ExpectedBody[r].cells)


\* The line a style draws for a marker, and whether it draws one.
RuleLine(name) == StyleRule(style, col_widths, alignments, name)
Draws(name) == RuleLine(name).kind = "text"

\* The places of the laid-out sequence that give a line: the data rows, and
\* the markers the style draws; and the j-th of them.
DrawnPlaces == {p \in 1..Len(table) : IsRule(table[p]) => Draws(table[p].rule)}
DrawnPlace(j) ==
  CHOOSE p \in DrawnPlaces : Cardinality({q \in DrawnPlaces : q < p}) = j - 1

\* How often a line occurs among the lines.
Occurrences(lines, text) == Cardinality({k \in 1..Len(lines) : lines[k] = text})

\* C26: the lines print_table has composed are the caption (if given), then
\* the line of the style's top rule (if it draws one), then one line for
\* each data row and each marker the style draws, in the order of the row
\* sequence (the header row, when given, is the first row), then the line of
\* the style's bottom rule (if it draws one); and with the latex style, the
\* markers of the caller being ExtraRule or NoRule only, '\toprule' and
\* '\bottomrule' occur exactly once and '\midrule' at most once.
C26_LineOrder ==
  pc = "rendered" =>
    LET lines == formatted_lines
        cap == IF fn = "print_table" /\ args.caption.some THEN 1 ELSE 0
        top == IF Draws("TopRule") THEN 1 ELSE 0
        bot == IF Draws("BotRule") THEN 1 ELSE 0
        n == Cardinality(DrawnPlaces)
    IN  /\ Len(lines) = cap + top + n + bot
        /\ cap = 1 => lines[1] = args.caption.v
        /\ top = 1 => lines[cap + 1] = RuleLine("TopRule").text
        /\ bot = 1 => lines[Len(lines)] = RuleLine("BotRule").text
        /\ \A j \in 1..n :
             lines[cap + top + j]
               = IF IsRule(table[DrawnPlace(j)])
                 THEN RuleLine(table[DrawnPlace(j)].rule).text
                 ELSE StyleRow(style, table[DrawnPlace(j)].cells)
        /\ fn = "print_table" =>
             LET hr == IF args.head_row.some THEN 1 ELSE 0
                 hc == IF args.head_col.kind # "None" THEN 1 ELSE 0
                 body == CleanRows(ExpectedBody)
             IN  /\ Len(RowsAfter) = hr + Len(body)
                 /\ \A c \in 1..(hr * Len(args.head_row.v)) :
                      RStrip(RowsAfter[1][hc + c]) = Replaced(PyStr(args.head_row.v[c]))
                 /\ \A r \in 1..Len(body) :
                      \A c \in 1..Len(body[r]) :
                        RStrip(RowsAfter[hr + r][hc + c]) = Replaced(PyStr(body[r][c]))
        /\ style.name = "latex" =>
             /\ Occurrences(lines, <<"\\toprule">>) = 1
             /\ Occurrences(lines, <<"\\bottomrule">>) = 1
             /\ Occurrences(lines, <<"\\midrule">>) <= 1

\* print_table([[1], [1, 2]], head_row = ['X', 'Y'], caption = 'T',
\* style = 'latex') has composed its seven lines.
C26_Witness ==
  /\ pc = "rendered"
  /\ fn = "print_table"
  /\ args.table = <<RowE(<<IntV(1)>>), RowE(<<IntV(1), IntV(2)>>)>>
  /\ args.head_col = NoHeadCol /\ ~args.transpose_data /\ ~args.replacement.some
  /\ formatted_lines
       = <<<<"T">>,
           <<"\\toprule">>,
           <<"X", "&", "Y", "\\", "\\">>,
           <<"\\midrule">>,
           <<"1", "&", " ", "\\", "\\">>,
           <<"1", "&", "2", "\\", "\\">>,
           <<"\\bottomrule">>>>


\* C27: at every point of a call of print_table or print_table_LaTeX, and
\* so when it has returned or raised, the caller's table (its rows, their
\* cells and its markers) and head_row are what the caller passed: every
\* write of the call goes to a list the call made.  (head_col and the
\* replacement map are only read.)
C27_ArgumentsUnchanged ==
  /\ CallerTable = args.table
  /\ CallerHeadRow = args.head_row
  /\ pc \in {"done", "raised"} => ~caller.table.some /\ ~caller.head_row.some

\* print_table_LaTeX([[1], [1, 2]], head_row = ['X', 'Y'],
\* head_col = ['Name', 'Val'], top_left = 'TL', transpose_data = True,
\* replacement = {'1': '---'}) has returned: its own table holds the heads,
\* the caller's objects are as they were.
C27_Witness ==
  /\ pc = "done"
  /\ fn = "print_table_LaTeX"
  /\ args.table = <<RowE(<<IntV(1)>>), RowE(<<IntV(1), IntV(2)>>)>>
  /\ args.head_row.some /\ args.head_col.kind = "list"
  /\ args.transpose_data /\ args.replacement.some
  /\ Len(RowsAfter) = 3
  /\ Len(RowsAfter[1]) = 3
  /\ CallerTable = args.table
  /\ CallerHeadRow = Some(<<StrV(<<"X">>), StrV(<<"Y">>)>>)
  /\ "table" \notin caller.shared


\* C28 as the specification states it: for every table, the empty one and
\* omit_headrule = True included, the final pop of the normalization never
\* finds the sequence empty and removes a rule marker, and the normalized
\* sequence does not end in a rule marker and holds the sub-rows of the
\* header row and of every data row, in input order.
C28_NormalizationEnds ==
  /\ (pc = "normalize" /\ i = Len(table)) =>
       /\ table_lines # <<>>
       /\ IsRule(table_lines[Len(table_lines)])
  /\ pc = "raised" => exc # "IndexError"
  /\ pc = "normalized" =>
       /\ table_lines # <<>> => ~IsRule(table_lines[Len(table_lines)])
       /\ CleanRows(table_lines)
            = Flatten(List([r \in 1..Len(ArgRows) |-> SubRowsOf(ArgRows[r])]))


\* C29: laid out, every data row has as many cells as the longest row had
\* after the heads were inserted and the cells formatted; a row that was
\* shorter keeps its own texts in their places and is completed on the right
\* with cells made of the empty text (left empty when align is None, else
\* spaces up to the width of the column); and the csv lines of the data rows
\* all hold the same number of cells.
C29_RowsCompleted ==
  /\ pc = "laid_out" =>
       /\ Len(RowsAfter) = Len(RowsBefore)
       /\ \A r \in 1..Len(RowsBefore) :
            /\ Len(RowsAfter[r]) = ColsBefore
            /\ \A c \in 1..Len(RowsBefore[r]) :
                 \E w \in {Len(RowsBefore[r][c]), col_widths[c]} :
                   IsPadded(RowsAfter[r][c], RowsBefore[r][c], w)
            /\ \A c \in (Len(RowsBefore[r]) + 1)..ColsBefore :
                 RowsAfter[r][c] \in {<<>>, Spaces(col_widths[c])}
  /\ (pc = "rendered" /\ style.name = "csv") =>
       \A n, m \in DataLines :
         Len(SplitText(formatted_lines[n], ","))
           = Len(SplitText(formatted_lines[m], ","))

\* print_table([['a'], [2, 'cd']], head_col = 'enumerate', align = 'r',
\* style = 'csv') is laid out: the first row, one cell shorter, ends in a
\* cell of two spaces.
C29_Witness ==
  /\ pc = "laid_out"
  /\ style.name = "csv"
  /\ args.table = <<RowE(<<StrV(<<"a">>)>>), RowE(<<IntV(2), StrV(<<"c", "d">>)>>)>>
  /\ args.head_col = HeadColStr(EnumerateText)
  /\ ~args.head_row.some
  /\ args.align = AlignStr("r")
  /\ RowsBefore = <<<<<<"1">>, <<"a">>>>, <<<<"2">>, <<"2">>, <<"c", "d">>>>>>
  /\ RowsAfter = <<<<<<"1">>, <<"a">>, <<" ", " ">>>>, <<<<"2">>, <<"2">>, <<"c", "d">>>>>>


\* The line of a row as the specification states it: the line-start token,
\* the cells in their order and the line-end token, with the first-column
\* separator after the first cell of a row of two cells or more and the item
\* separator between the others (each separator with its padding).
RowAsStated(st, row) ==
  st.linestart \o st.pad_right \o row[1]
  \o (IF Len(row) >= 2
      THEN st.pad_left \o st.firstsep \o st.pad_right
           \o JoinText(st.pad_left \o st.itemsep \o st.pad_right, Tail(row))
      ELSE <<>>)
  \o st.pad_left \o st.lineend

\* C30 as the specification states it: the line rendered for a row of
\* k >= 1 cells holds exactly k - 1 separators, all between cells; the line
\* of a one-cell row holds none, and with csv it is the text of the cell.
C30_SeparatorsBetweenCells ==
  pc = "rendered" =>
    \A k \in 1..Len(RowsAfter) :
      LET row == RowsAfter[k]
          line == formatted_lines[DataLine(k)]
      IN  /\ line = RowAsStated(style, row)
          /\ style.name = "csv" =>
               /\ Len(SplitText(line, ",")) = Len(row)
               /\ Len(row) = 1 => line = row[1]

=============================================================================
